---- MODULE Spec2Model ----
(***************************************************************************)
(* Strata: recipe validation (maury/recipe.py), the build command          *)
(* (cli.py), the layer composition pipeline (maury/pipeline.py), the       *)
(* geometry operations (humboldt), the SVG renderer (kelley/svg.py) and    *)
(* the archive download of the source fetchers (thoreau).                  *)
(*                                                                         *)
(* Module imports are treated as linkage: a name used by a function body   *)
(* denotes the definition of that name in the repository.                  *)
(***************************************************************************)
EXTENDS Integers, Sequences, FiniteSets, TLC

VARIABLES
    recipe,        \* the recipe document: [sources, layers, bounds]
    parsed,        \* "raw" | "ok" | "rejected": outcome of Recipe.from_yaml
    parseError,    \* the ValueError raised by OutputConfig.validate_bounds
    validated,     \* Recipe.validate_references has been called
    errors,        \* the list validate_references returned
    opSources,     \* process_layer: the dict of loaded sources
    opGdf,         \* process_layer / subtract: the input collection
    opOps,         \* process_layer: the list of operation dicts
    opResult,      \* what process_layer returned or raised
    subLog,        \* the successive direct calls of subtract: <<target, result>>
    clipLog,       \* the successive direct calls of _clip_to_bounds: [before, after]
    fnArgs,        \* the arguments of a direct call of a function of kelley/svg.py
    fnResult,      \* what that call returned
    pc,            \* position of the build command
    dryRun,        \* --dry-run
    exitStatus,    \* -1 while the command runs, then its exit status
    console,       \* the validation errors the command printed
    ran,           \* the Pipeline methods executed so far, in order
    fetchOutcome,  \* per source: what thoreau.fetch does ("path" or the exception)
    files,         \* per source: the content of the fetched file
    paths,         \* what Pipeline.prepare returned: the sources that have a path
    selfSources,   \* Pipeline.sources
    selfLayers,    \* Pipeline.layers, a dict in insertion order: <<[name, gdf], ...>>
    processing,    \* the layers process_layers visited, in order of visit
    svg,           \* what kelley.render_svg wrote
    download       \* one archive download of a thoreau fetcher: its position,
                   \* loop counter, response, cache directory and event log

recipeVars == <<recipe, parsed, parseError, validated, errors>>
callVars == <<clipLog, fnArgs, fnResult>>
opVars == <<opSources, opGdf, opOps, opResult, subLog, callVars>>
buildVars == <<pc, dryRun, exitStatus, console, ran, fetchOutcome, files, paths,
               selfSources, selfLayers, processing, svg>>
downloadVars == <<download>>
vars == <<recipeVars, opVars, buildVars, downloadVars>>

(***************************************************************************)
(* Bounds of the model                                                     *)
(***************************************************************************)
MaxLayers == 2
MaxBuildLayers == 3
MaxCoord == 2
MaxFeatures == 2
MaxOps == 2
MaxCalls == 2

(***************************************************************************)
(* Values of type  str | list[str] | None  (LayerConfig.source,            *)
(* OperationConfig.target) and  list[float] | str  (OutputConfig.bounds)   *)
(***************************************************************************)
Str(s) == [kind |-> "str", str |-> s, list |-> <<>>]
List(l) == [kind |-> "list", str |-> "", list |-> l]
NoneRef == [kind |-> "none", str |-> "", list |-> <<>>]

\* [x] if isinstance(x, str) else x
AsList(ref) == IF ref.kind = "str" THEN <<ref.str>> ELSE ref.list

\* Python truthiness of a str | list | None value: `if op.target:`
Truthy(ref) ==
    \/ ref.kind = "str" /\ ref.str # ""
    \/ ref.kind = "list" /\ ref.list # <<>>

Range(s) == {s[i] : i \in DOMAIN s}

RECURSIVE Flatten(_)
Flatten(ss) == IF ss = <<>> THEN <<>> ELSE Head(ss) \o Flatten(Tail(ss))

(***************************************************************************)
(* Recipe.validate_references                                              *)
(* A message is the sequence of the pieces of its f-string.                *)
(***************************************************************************)
SourceErrorTextNoLayer(layerName, src) ==
    <<"Undefined source '", src, "'">>

SourceErrorText(layerName, src) ==
    <<"Layer '", layerName, "' references undefined source '", src, "'">>

OperationErrorText(layerName, target) ==
    <<"Layer '", layerName, "' operation references ", "undefined source '", target, "'">>

\* for src in layer_sources: if src not in source_names: errors.append(...)
LayerSourceErrors(layer, source_names) ==
    LET missing == SelectSeq(AsList(layer.source), LAMBDA s : s \notin source_names)
    IN  [i \in 1..Len(missing) |-> SourceErrorText(layer.name, missing[i])]

\* if op.target: for target in targets:
\*     if target not in source_names and target != "bounds": errors.append(...)
OpTargetErrors(layer, op, source_names) ==
    IF Truthy(op.target)
    THEN LET missing == SelectSeq(AsList(op.target),
                            LAMBDA t : t \notin source_names /\ t # "bounds")
         IN  [i \in 1..Len(missing) |-> OperationErrorText(layer.name, missing[i])]
    ELSE <<>>

LayerErrors(layer, source_names) ==
    LayerSourceErrors(layer, source_names)
    \o Flatten([j \in 1..Len(layer.operations) |->
                    OpTargetErrors(layer, layer.operations[j], source_names)])

\* the loop over self.layers, appending to one list
CollectErrors(r) ==
    Flatten([i \in 1..Len(r.layers) |-> LayerErrors(r.layers[i], Range(r.sources))])

ValidateReferencesFailFast(r) ==
    LET all == CollectErrors(r) IN IF all = <<>> THEN <<>> ELSE <<all[1]>>

ValidateReferences(r) == CollectErrors(r)

(***************************************************************************)
(* OutputConfig.validate_bounds                                            *)
(***************************************************************************)
BoundsAccepted == [ok |-> TRUE, words |-> {}]

\* the words of the two ValueError messages
LengthError == [ok |-> FALSE, words |-> {"Bounds", "4", "values", "west", "south", "east", "north"}]
SouthNorthError == [ok |-> FALSE, words |-> {"Invalid", "bounds", "south", ">", "north"}]

ValidateBoundsNoOrderCheck(v) ==
    IF v.kind = "list" /\ Len(v.list) # 4 THEN LengthError ELSE BoundsAccepted

ValidateBounds(v) ==
    IF v.kind = "list"
    THEN IF Len(v.list) # 4 THEN LengthError
         ELSE LET south == v.list[2]
                  north == v.list[4]
              IN  IF south > north THEN SouthNorthError ELSE BoundsAccepted
    ELSE BoundsAccepted

(***************************************************************************)
(* Input documents                                                         *)
(***************************************************************************)
LayerNames == <<"land", "lakes", "roads", "labels">>

MkOp(type, target) == [type |-> type, target |-> target]

SourceSeqs == {<<"towns">>, <<"towns", "water">>}

SrcRefChoices ==
    {Str("towns"), Str("water"), Str("bounds"), Str(""),
     List(<<>>), List(<<"towns", "water">>), List(<<"water", "water">>)}

TargetChoices ==
    {NoneRef, Str(""), Str("bounds"), Str("towns"), Str("water"),
     List(<<>>), List(<<"water", "bounds", "">>)}

OpsChoices ==
    {<<>>} \cup {<<MkOp("subtract", t)>> : t \in TargetChoices}
           \cup {<<MkOp("subtract", Str("water")), MkOp("clip", Str("water"))>>}

LayerBodies == [source : SrcRefChoices, operations : OpsChoices, order : {1}]

MkLayers(f) ==
    [i \in DOMAIN f |-> [name |-> LayerNames[i], source |-> f[i].source,
                         operations |-> f[i].operations, order |-> f[i].order]]

LayerSeqs == {MkLayers(f) : f \in UNION {[1..n -> LayerBodies] : n \in 0..MaxLayers}}

Coords == 0..MaxCoord

BoundsInputs ==
    {Str("auto"), Str("source:towns")}
    \cup {List(l) : l \in UNION {[1..n -> Coords] : n \in 3..5}}

SimpleLayers == MkLayers(<<[source |-> Str("towns"), operations |-> <<>>, order |-> 1]>>)

RawRecipes ==
    {[sources |-> s, layers |-> ls, bounds |-> Str("auto")] :
        s \in SourceSeqs, ls \in LayerSeqs}
    \cup {[sources |-> <<"towns">>, layers |-> SimpleLayers, bounds |-> b] :
        b \in BoundsInputs}

(***************************************************************************)
(* Feature collections (GeoDataFrame)                                      *)
(*                                                                         *)
(* The overlay primitives belong to the geometry engine (shapely / GEOS /  *)
(* geopandas); they are modelled on a discretised plane.  A geometry is    *)
(* the set of the atoms it covers.  An atom <<x, part>> is one of the two  *)
(* parts of the unit cell at coordinate x: its "rim" or its "core".  A     *)
(* geometry covering the rim of a cell but not its core has an interior    *)
(* ring (a hole) there; the core alone is the island inside that ring.     *)
(* Coordinates are those of the collection's CRS: the same place has       *)
(* coordinate p in EPSG:4326 and p + 10 in EPSG:4269.                      *)
(***************************************************************************)
Rim(x) == <<x, "rim">>
Core(x) == <<x, "core">>
Solid(x) == {Rim(x), Core(x)}

\* a narrow spike of an outline that reaches the cell x; its width is SpurWidth,
\* in the unit of the tolerances (0.0001 degree)
Spur(x) == <<x, "spur">>
SpurWidth == 50

CrsShift(crs) == IF crs = "EPSG:4326" THEN 0 ELSE 10

\* GeoSeries.to_crs
ToCrsGeom(g, from, to) == {<<a[1] - CrsShift(from) + CrsShift(to), a[2]>> : a \in g}

\* GeoDataFrame.to_crs
ToCrs(gdf, crs) ==
    [gdf EXCEPT !.crs = crs,
                !.rows = [i \in DOMAIN gdf.rows |->
                            [gdf.rows[i] EXCEPT !.geom = ToCrsGeom(@, gdf.crs, crs)]]]

\* gdf[mask]: the rows that satisfy Keep, index labels and order kept
FilterRows(gdf, Keep(_)) == [gdf EXCEPT !.rows = SelectSeq(@, Keep)]

NonEmptyRow(row) == row.geom # {}

\* gdf.geometry.union_all()
UnionAll(gdf) == UNION {gdf.rows[i].geom : i \in DOMAIN gdf.rows}

\* gdf.total_bounds: (minx, maxx), NaN for a collection without coordinates
TotalBounds(gdf) ==
    LET xs == {a[1] : a \in UnionAll(gdf)}
    IN  IF xs = {} THEN [nan |-> TRUE, minx |-> 0, maxx |-> 0]
        ELSE [nan |-> FALSE,
              minx |-> CHOOSE x \in xs : \A y \in xs : x <= y,
              maxx |-> CHOOSE x \in xs : \A y \in xs : x >= y]

\* shapely box(*bounds) as the predicate "coordinate x lies in the box"
InBox(b, x) == ~b.nan /\ b.minx <= x /\ x <= b.maxx

\* the interior rings of a geometry, as the coordinates of their cells
Holes(g) == {x \in {a[1] : a \in g} : Rim(x) \in g /\ Core(x) \notin g}

\* Polygon(interior).area: the rings at even places are the larger ones
IslandArea(x) == IF x % 2 = 0 THEN 2 ELSE 1

(***************************************************************************)
(* humboldt/geometry.py                                                    *)
(***************************************************************************)
\* the symmetric difference with the union, in place of the difference
SubtractSymmetric(gdf, subtract_gdf) ==
    LET sub == IF gdf.crs # subtract_gdf.crs THEN ToCrs(subtract_gdf, gdf.crs)
               ELSE subtract_gdf
        subtract_union == UnionAll(sub)
        result == [gdf EXCEPT !.rows = [i \in DOMAIN gdf.rows |->
                        [gdf.rows[i] EXCEPT !.geom = (@ \ subtract_union)
                                                     \cup (subtract_union \ @)]]]
    IN  FilterRows(result, NonEmptyRow)

\* result = gdf.copy(); result["geometry"] = result.geometry.difference(...)
Difference(gdf, subtract_gdf) ==
    LET sub == IF gdf.crs # subtract_gdf.crs THEN ToCrs(subtract_gdf, gdf.crs)
               ELSE subtract_gdf
        subtract_union == UnionAll(sub)
    IN  [gdf EXCEPT !.rows = [i \in DOMAIN gdf.rows |->
                        [gdf.rows[i] EXCEPT !.geom = @ \ subtract_union]]]

Subtract(gdf, subtract_gdf) == FilterRows(Difference(gdf, subtract_gdf), NonEmptyRow)

\* GeoDataFrame.clip(box): the rows that intersect the box, cut to it
ClipToBox(gdf, b) ==
    LET cut == [gdf EXCEPT !.rows = [i \in DOMAIN gdf.rows |->
                    [gdf.rows[i] EXCEPT !.geom = {a \in @ : InBox(b, a[1])}]]]
    IN  FilterRows(cut, NonEmptyRow)

Clip(gdf, bounds) == ClipToBox(gdf, bounds)

\* merge keeping the first feature instead of the union
MergeFirstOnly(gdf) ==
    IF gdf.rows = <<>> THEN [gdf EXCEPT !.cols = {"geometry"}]
    ELSE [crs |-> gdf.crs, cols |-> gdf.cols, rows |-> <<gdf.rows[1]>>]

Merge(gdf) ==
    [crs |-> gdf.crs, cols |-> {"geometry"},
     rows |-> <<[idx |-> 0, geom |-> UnionAll(gdf), name |-> "",
                 src_idx |-> -1, island_area |-> -1]>>]

\* GEOS simplification: the vertices closer than the tolerance to the simplified
\* outline go, so a spike narrower than the tolerance is cut off; with
\* preserve_topology a geometry never disappears, without it a geometry no larger
\* than the tolerance collapses to nothing
SimplifyGeom(g, tolerance, preserve_topology) ==
    IF ~preserve_topology /\ tolerance > Cardinality(g) THEN {}
    ELSE IF tolerance > SpurWidth THEN {a \in g : a[2] # "spur"}
    ELSE g

Simplify(gdf, tolerance, preserve_topology) ==
    [gdf EXCEPT !.rows = [i \in DOMAIN gdf.rows |->
        [gdf.rows[i] EXCEPT !.geom = SimplifyGeom(@, tolerance, preserve_topology)]]]

\* GEOS buffer: a positive distance reaches the cells within that distance and
\* fills the rings, a negative distance of a cell or more leaves nothing
BufferGeom(g, distance) ==
    IF g = {} \/ distance = 0 THEN g
    ELSE IF distance < 0 THEN {}
    ELSE UNION {Solid(x + d) : x \in {a[1] : a \in g}, d \in (0 - distance)..distance}

\* result = gdf.copy(); result["geometry"] = result.geometry.buffer(distance)
Buffered(gdf, distance) ==
    [gdf EXCEPT !.rows = [i \in DOMAIN gdf.rows |->
                        [gdf.rows[i] EXCEPT !.geom = BufferGeom(@, distance)]]]

Buffer(gdf, distance) == FilterRows(Buffered(gdf, distance), NonEmptyRow)

\* the interior rings of one row, in ring order
RECURSIVE RingSeq(_)
RingSeq(xs) ==
    IF xs = {} THEN <<>>
    ELSE LET x == CHOOSE m \in xs : \A y \in xs : m <= y
         IN  <<x>> \o RingSeq(xs \ {x})

IslandsOfRow(row, min_area) ==
    LET rings == SelectSeq(RingSeq(Holes(row.geom)), LAMBDA x : IslandArea(x) >= min_area)
    IN  [k \in 1..Len(rings) |->
            [idx |-> 0, geom |-> {Core(rings[k])}, name |-> row.name,
             src_idx |-> row.idx, island_area |-> IslandArea(rings[k])]]

ExtractIslands(gdf, min_area) ==
    LET islands == Flatten([i \in DOMAIN gdf.rows |-> IslandsOfRow(gdf.rows[i], min_area)])
    IN  [crs |-> gdf.crs,
         cols |-> gdf.cols \cup {"_source_idx", "_island_area"},
         rows |-> [k \in 1..Len(islands) |-> [islands[k] EXCEPT !.idx = k - 1]]]

\* remove_holes_from_geom returning the polygon with its interior rings
RemoveHolesFromGeomKeepingRings(g, min_hole_area) == g

\* remove_holes_from_geom keeping the large rings and removing the small ones
RemoveHolesFromGeomKeepingLarge(g, min_hole_area) ==
    IF g = {} THEN g
    ELSE IF min_hole_area <= 0 THEN g \cup {Core(x) : x \in Holes(g)}
    ELSE g \cup {Core(x) : x \in {h \in Holes(g) : IslandArea(h) < min_hole_area}}

RemoveHolesFromGeom(g, min_hole_area) ==
    IF g = {} THEN g
    ELSE IF min_hole_area <= 0 THEN g \cup {Core(x) : x \in Holes(g)}
    ELSE g \cup {Core(x) : x \in {h \in Holes(g) : ~(IslandArea(h) < min_hole_area)}}

RemoveHoles(gdf, min_hole_area) ==
    [gdf EXCEPT !.rows = [i \in DOMAIN gdf.rows |->
        [gdf.rows[i] EXCEPT !.geom = RemoveHolesFromGeom(@, min_hole_area)]]]

(***************************************************************************)
(* humboldt.process_layer                                                  *)
(* An operation is a dict; a key is absent, None or holds a value.         *)
(***************************************************************************)
Absent == [st |-> "absent", v |-> 0]
NoneVal == [st |-> "none", v |-> 0]
Val(n) == [st |-> "val", v |-> n]
AbsentRef == [kind |-> "absent", str |-> "", list |-> <<>>]

\* op.get(key, default)
Get(opt, default) == IF opt.st = "absent" THEN Val(default) ELSE opt

\* tolerance 0.0001, in units of 0.0001
DefaultTolerance == 1

NoFrame == [crs |-> "", cols |-> {}, rows |-> <<>>]
Ok(gdf) == [ok |-> TRUE, gdf |-> gdf, raised |-> ""]
Raise(e) == [ok |-> FALSE, gdf |-> NoFrame, raised |-> e]

\* targets = op.get("target", []); if isinstance(targets, str): targets = [targets]
TargetsOf(op) == IF op.target.kind = "str" THEN <<op.target.str>> ELSE op.target.list

RECURSIVE SubtractEachFirstOnly(_, _, _)
SubtractEachFirstOnly(result, targets, sources) ==
    IF targets = <<>> THEN result
    ELSE IF Head(targets) \in DOMAIN sources
         THEN Subtract(result, sources[Head(targets)])
         ELSE SubtractEachFirstOnly(result, Tail(targets), sources)

\* for target_name in targets: if target_name in sources: result = subtract(...)
RECURSIVE SubtractEach(_, _, _)
SubtractEach(result, targets, sources) ==
    IF targets = <<>> THEN result
    ELSE SubtractEach(IF Head(targets) \in DOMAIN sources
                      THEN Subtract(result, sources[Head(targets)])
                      ELSE result,
                      Tail(targets), sources)

\* result = result[~result.geometry.intersects(target_union)]
Exclude(result, target_gdf) ==
    LET target_union == UnionAll(target_gdf)
    IN  FilterRows(result, LAMBDA row : row.geom \cap target_union = {})

RECURSIVE ExcludeEach(_, _, _)
ExcludeEach(result, targets, sources) ==
    IF targets = <<>> THEN result
    ELSE ExcludeEach(IF Head(targets) \in DOMAIN sources
                     THEN Exclude(result, sources[Head(targets)])
                     ELSE result,
                     Tail(targets), sources)

\* one pass of the loop body: the branch of op["type"]
ApplyOp(result, op, sources) ==
    CASE op.type = "subtract" ->
            IF op.target.kind = "none" THEN Raise("TypeError")
            ELSE Ok(SubtractEach(result, TargetsOf(op), sources))
      [] op.type = "clip" ->
            IF op.target.kind = "list" THEN Raise("TypeError")
            ELSE IF op.target.kind # "str" \/ op.target.str = "bounds" THEN Ok(result)
            ELSE IF op.target.str \in DOMAIN sources
                 THEN Ok(Clip(result, TotalBounds(sources[op.target.str])))
                 ELSE Ok(result)
      [] op.type = "simplify" ->
            LET tolerance == Get(op.tolerance, DefaultTolerance)
            IN  IF tolerance.st = "none" THEN Raise("TypeError")
                ELSE Ok(Simplify(result, tolerance.v, op.preserve_topology))
      [] op.type = "merge" -> Ok(Merge(result))
      [] op.type = "buffer" ->
            LET distance == Get(op.distance, 0)
            IN  IF distance.st = "none" THEN Raise("TypeError")
                ELSE Ok(Buffer(result, distance.v))
      [] op.type = "exclude" ->
            IF op.target.kind = "none" THEN Raise("TypeError")
            ELSE Ok(ExcludeEach(result, TargetsOf(op), sources))
      [] op.type = "extract_islands" ->
            LET min_area == Get(op.min_area, 0)
            IN  IF min_area.st = "none" /\ \E i \in DOMAIN result.rows :
                                                Holes(result.rows[i].geom) # {}
                THEN Raise("TypeError")
                ELSE Ok(ExtractIslands(result, min_area.v))
      [] op.type = "remove_holes" ->
            LET min_hole_area == Get(op.min_hole_area, 0)
            IN  IF min_hole_area.st = "none" /\ \E i \in DOMAIN result.rows :
                                                result.rows[i].geom # {}
                THEN Raise("TypeError")
                ELSE Ok(RemoveHoles(result, min_hole_area.v))
      [] OTHER -> Ok(result)

\* every operation is applied to the input collection, not to the previous output
RECURSIVE ProcessOpsFromInput(_, _, _)
ProcessOpsFromInput(res, operations, sources) ==
    IF operations = <<>> \/ ~res.ok THEN res
    ELSE IF Len(operations) = 1 THEN ApplyOp(res.gdf, Head(operations), sources)
    ELSE LET first == ApplyOp(res.gdf, Head(operations), sources)
         IN  IF first.ok THEN ProcessOpsFromInput(res, Tail(operations), sources)
             ELSE first

\* for op in operations: ... result = <operation>(result, ...)
RECURSIVE ProcessOps(_, _, _)
ProcessOps(res, operations, sources) ==
    IF operations = <<>> \/ ~res.ok THEN res
    ELSE ProcessOps(ApplyOp(res.gdf, Head(operations), sources), Tail(operations), sources)

\* result = gdf.copy(); the loop; return result
ProcessLayer(gdf, operations, sources) == ProcessOps(Ok(gdf), operations, sources)

(***************************************************************************)
(* Calls of humboldt.process_layer and of humboldt.subtract on bounded     *)
(* inputs                                                                  *)
(***************************************************************************)
FeatureNames == <<"A", "B", "C", "D">>

\* a collection read from a file: geoms are given by place and stored in crs
MkGdf(crs, geoms) ==
    [crs |-> crs, cols |-> {"geometry", "NAME"},
     rows |-> [i \in DOMAIN geoms |->
                [idx |-> i - 1, geom |-> ToCrsGeom(geoms[i], "EPSG:4326", crs),
                 name |-> FeatureNames[i], src_idx |-> -1, island_area |-> -1]]]

FeatureGeoms ==
    {Solid(1), {Rim(1)} \cup Solid(2), Solid(2) \cup Solid(3), {Rim(2)}}

CrsChoices == {"EPSG:4326", "EPSG:4269"}

InputCollections ==
    {MkGdf(crs, geoms) : crs \in CrsChoices,
                         geoms \in UNION {[1..n -> FeatureGeoms] : n \in 0..MaxFeatures}}

Towns == MkGdf("EPSG:4326", <<Solid(2)>>)

WaterChoices ==
    {MkGdf("EPSG:4326", <<Solid(1)>>),
     MkGdf("EPSG:4269", <<{Core(1)}, Solid(3)>>),
     MkGdf("EPSG:4326", <<>>)}

SourceMaps ==
    {[n \in {"towns", "water"} |-> IF n = "towns" THEN Towns ELSE w] : w \in WaterChoices}
    \cup {[n \in {"towns"} |-> Towns]}

DOp(type, target, tolerance, preserve, distance) ==
    [type |-> type, target |-> target, tolerance |-> tolerance,
     preserve_topology |-> preserve, distance |-> distance,
     min_area |-> Absent, min_hole_area |-> Absent]

OpDictChoices ==
    {DOp("subtract", Str("water"), Absent, TRUE, Absent),
     DOp("subtract", List(<<"water", "towns">>), Absent, TRUE, Absent),
     DOp("subtract", NoneRef, Absent, TRUE, Absent),
     DOp("clip", Str("water"), Absent, TRUE, Absent),
     DOp("clip", Str("bounds"), Absent, TRUE, Absent),
     DOp("merge", AbsentRef, Absent, TRUE, Absent),
     DOp("simplify", AbsentRef, Absent, TRUE, Absent),
     DOp("simplify", AbsentRef, Val(9), FALSE, Absent),
     DOp("buffer", AbsentRef, Absent, TRUE, Val(-1)),
     DOp("buffer", AbsentRef, Absent, TRUE, Val(1)),
     DOp("exclude", Str("water"), Absent, TRUE, Absent),
     DOp("exclude", List(<<"water", "towns">>), Absent, TRUE, Absent),
     DOp("extract_islands", AbsentRef, Absent, TRUE, Absent),
     DOp("remove_holes", AbsentRef, Absent, TRUE, Absent)}

OpLists == UNION {[1..n -> OpDictChoices] : n \in 0..MaxOps}

NotCalled == [called |-> FALSE, res |-> Raise("")]

NoCall == [fn |-> "none"]

CallsIdle ==
    /\ clipLog = <<>>
    /\ fnArgs = NoCall
    /\ fnResult = NoCall

OpsIdle ==
    /\ CallsIdle
    /\ opSources = [n \in {} |-> NoFrame]
    /\ opGdf = NoFrame
    /\ opOps = <<>>
    /\ opResult = NotCalled
    /\ subLog = <<>>

\* no download under way
NoDownload ==
    [fetcher |-> "", pc |-> "idle", force |-> FALSE, cached |-> "no", archive |-> "",
     attempt |-> 0, response |-> "", cache |-> "no", raised |-> "", log |-> <<>>]

DownloadIdle == download = NoDownload

RecipeIdle ==
    /\ recipe = [sources |-> <<>>, layers |-> <<>>, bounds |-> Str("auto")]
    /\ parsed = "raw"
    /\ parseError = BoundsAccepted
    /\ validated = FALSE
    /\ errors = <<>>

NoSvg == [written |-> FALSE, tiers |-> <<>>]

BuildIdle ==
    /\ pc = "idle"
    /\ dryRun = FALSE
    /\ exitStatus = -1
    /\ console = <<>>
    /\ ran = <<>>
    /\ fetchOutcome = [n \in {} |-> ""]
    /\ files = [n \in {} |-> NoFrame]
    /\ paths = <<>>
    /\ selfSources = [n \in {} |-> NoFrame]
    /\ selfLayers = <<>>
    /\ processing = <<>>
    /\ svg = NoSvg

OpsInit ==
    /\ DownloadIdle
    /\ RecipeIdle
    /\ BuildIdle
    /\ opSources \in SourceMaps
    /\ opGdf \in InputCollections
    /\ opOps \in OpLists
    /\ opResult = NotCalled
    /\ subLog = <<>>
    /\ CallsIdle

CallProcessLayer ==
    /\ ~opResult.called
    /\ subLog = <<>>
    /\ opResult' = [called |-> TRUE, res |-> ProcessLayer(opGdf, opOps, opSources)]
    /\ UNCHANGED <<downloadVars, recipeVars, buildVars, callVars, opSources, opGdf, opOps, subLog>>

CallSubtract ==
    /\ ~opResult.called
    /\ opOps = <<>>
    /\ Len(subLog) < MaxCalls
    /\ \E t \in DOMAIN opSources :
        LET cur == IF subLog = <<>> THEN opGdf ELSE subLog[Len(subLog)].out
        IN  subLog' = Append(subLog, [target |-> t, out |-> Subtract(cur, opSources[t])])
    /\ UNCHANGED <<downloadVars, recipeVars, buildVars, callVars, opSources, opGdf, opOps, opResult>>

OpsNext == CallProcessLayer \/ CallSubtract

SpecOps == OpsInit /\ [][OpsNext]_vars

(***************************************************************************)
(* Recipe.from_yaml followed by Recipe.validate_references, as the tests   *)
(* and the commands call them                                              *)
(***************************************************************************)
ValidateInit ==
    /\ DownloadIdle
    /\ recipe \in RawRecipes
    /\ parsed = "raw"
    /\ parseError = BoundsAccepted
    /\ validated = FALSE
    /\ errors = <<>>
    /\ OpsIdle
    /\ BuildIdle

FromYaml ==
    /\ parsed = "raw"
    /\ LET res == ValidateBounds(recipe.bounds)
       IN  /\ parsed' = IF res.ok THEN "ok" ELSE "rejected"
           /\ parseError' = res
    /\ UNCHANGED <<downloadVars, recipe, validated, errors, opVars, buildVars>>

CallValidateReferences ==
    /\ parsed = "ok"
    /\ ~validated
    /\ errors' = ValidateReferences(recipe)
    /\ validated' = TRUE
    /\ UNCHANGED <<downloadVars, recipe, parsed, parseError, opVars, buildVars>>

ValidateNext == FromYaml \/ CallValidateReferences

SpecValidate == ValidateInit /\ [][ValidateNext]_vars

(***************************************************************************)
(* kelley/svg.py: colours                                                  *)
(* Floats are exact rationals [n, d] with d > 0, kept in lowest terms.     *)
(***************************************************************************)
Abs(x) == IF x < 0 THEN -x ELSE x

RECURSIVE Gcd(_, _)
Gcd(a, b) == IF b = 0 THEN a ELSE Gcd(b, a % b)

Frac(n, d) ==
    LET g == Gcd(Abs(n), d)
    IN  [n |-> n \div g, d |-> d \div g]

FAdd(x, y) ==
    LET l == (x.d \div Gcd(x.d, y.d)) * y.d
    IN  Frac(x.n * (l \div x.d) + y.n * (l \div y.d), l)

FNeg(x) == [n |-> -x.n, d |-> x.d]
FSub(x, y) == FAdd(x, FNeg(y))
FLe(x, y) == x.n * y.d <= y.n * x.d
FMax(x, y) == IF FLe(x, y) THEN y ELSE x
FMin(x, y) == IF FLe(x, y) THEN x ELSE y
FAbs(x) == [n |-> Abs(x.n), d |-> x.d]

\* int(c, 16) for one hexadecimal digit
HexDigit ==
    [c \in {"0", "1", "2", "3", "4", "5", "6", "7", "8", "9",
            "a", "b", "c", "d", "e", "f"} |->
        CASE c = "0" -> 0 [] c = "1" -> 1 [] c = "2" -> 2 [] c = "3" -> 3
          [] c = "4" -> 4 [] c = "5" -> 5 [] c = "6" -> 6 [] c = "7" -> 7
          [] c = "8" -> 8 [] c = "9" -> 9 [] c = "a" -> 10 [] c = "b" -> 11
          [] c = "c" -> 12 [] c = "d" -> 13 [] c = "e" -> 14 [] c = "f" -> 15]

\* int(base_hex[i:i+2], 16); a colour is the sequence of its six digits
HexPair(base_hex, i) == 16 * HexDigit[base_hex[i]] + HexDigit[base_hex[i + 1]]

Max3(a, b, c) == IF a >= b /\ a >= c THEN a ELSE IF b >= c THEN b ELSE c
Min3(a, b, c) == IF a <= b /\ a <= c THEN a ELSE IF b <= c THEN b ELSE c

\* colorsys.rgb_to_hsv on channels r/255, g/255, b/255
RgbToHsv(r, g, b) ==
    LET maxc == Max3(r, g, b)
        minc == Min3(r, g, b)
        rangec == maxc - minc
        v == Frac(maxc, 255)
    IN  IF minc = maxc THEN [h |-> Frac(0, 1), s |-> Frac(0, 1), v |-> v]
        ELSE LET six == IF r = maxc THEN Frac(g - b, rangec)
                        ELSE IF g = maxc THEN FAdd(Frac(2, 1), Frac(b - r, rangec))
                        ELSE FAdd(Frac(4, 1), Frac(r - g, rangec))
                 h == Frac(six.n, 6 * six.d)
             IN  [h |-> IF h.n < 0 THEN FAdd(h, Frac(1, 1)) ELSE h,
                  s |-> Frac(rangec, maxc),
                  v |-> v]

Prime == 7919

\* ((index * 7919) % 100) / 100.0
Offset(index) == Frac((index * Prime) % 100, 100)

SMin == Frac(1, 10)
VMin == Frac(3, 10)
One == Frac(1, 1)

\* (offset - 0.5) * variation * 0.5, variation in hundredths
SAdjust(index, variation) == Frac((((index * Prime) % 100) - 50) * variation, 20000)

\* (offset - 0.5) * variation
VAdjust(index, variation) == Frac((((index * Prime) % 100) - 50) * variation, 10000)

\* vary_color without the clamps
VaryColorUnclamped(base_hex, index, variation) ==
    LET hsv == RgbToHsv(HexPair(base_hex, 1), HexPair(base_hex, 3), HexPair(base_hex, 5))
        new_s == FAdd(hsv.s, SAdjust(index, variation))
        new_v == FAdd(hsv.v, VAdjust(index, variation))
    IN  [h |-> hsv.h, s |-> new_s, v |-> new_v,
         value8 |-> (new_v.n * 255) \div new_v.d]

\* vary_color with the offset not centred: offset * variation * 2 on the value
VaryColorWide(base_hex, index, variation) ==
    LET hsv == RgbToHsv(HexPair(base_hex, 1), HexPair(base_hex, 3), HexPair(base_hex, 5))
        wide == Frac(((index * Prime) % 100) * variation * 2, 10000)
        new_s == FMax(SMin, FMin(One, FAdd(hsv.s, SAdjust(index, variation))))
        new_v == FMax(VMin, FMin(One, FAdd(hsv.v, wide)))
    IN  [h |-> hsv.h, s |-> new_s, v |-> new_v,
         value8 |-> (new_v.n * 255) \div new_v.d]

\* vary_color: the hue, saturation and value handed to colorsys.hsv_to_rgb, and
\* the largest channel of the colour returned, int(new_v * 255)
VaryColor(base_hex, index, variation) ==
    LET hsv == RgbToHsv(HexPair(base_hex, 1), HexPair(base_hex, 3), HexPair(base_hex, 5))
        new_s == FMax(SMin, FMin(One, FAdd(hsv.s, SAdjust(index, variation))))
        new_v == FMax(VMin, FMin(One, FAdd(hsv.v, VAdjust(index, variation))))
    IN  [h |-> hsv.h, s |-> new_s, v |-> new_v,
         value8 |-> (new_v.n * 255) \div new_v.d]

\* base_hex.lstrip('#')
RECURSIVE Lstrip(_)
Lstrip(hex) == IF hex # <<>> /\ Head(hex) = "#" THEN Lstrip(Tail(hex)) ELSE hex

\* str.lower() on the letters that occur in the texts of the model
LowerChar(c) ==
    CASE c = "N" -> "n" [] c = "O" -> "o" [] c = "E" -> "e"
      [] c = "S" -> "s" [] c = "T" -> "t" [] OTHER -> c

Lower(text) == [i \in DOMAIN text |-> LowerChar(text[i])]

NoneText == <<"n", "o", "n", "e">>

\* a fill: a text returned as it is, or a colour computed by vary_color
NoVaried == [h |-> Frac(0, 1), s |-> Frac(0, 1), v |-> Frac(0, 1), value8 |-> 0]
FillText(text) == [kind |-> "text", text |-> text, varied |-> NoVaried]
FillVaried(c) == [kind |-> "varied", text |-> <<>>, varied |-> c]

\* a key of the style dict that holds a text: absent, None or the text
TAbsent == [st |-> "absent", v |-> <<>>]
TNone == [st |-> "none", v |-> <<>>]
TVal(text) == [st |-> "val", v |-> text]

DefaultVariation == 15
MappedVariation == 8

\* getattr(row, fill_by, None): the NAME column is the attribute of the model
RowAttr(row, cols, fill_by) ==
    IF fill_by = "NAME" /\ "NAME" \in cols THEN TVal(row.name) ELSE TNone

\* get_feature_color(row, style, index); style = [fill, fill_by, color_map, vary_fill]
\* with fill_by "" and color_map of empty domain for an absent, None or empty key
GetFeatureColor(row, cols, style, index) ==
    LET base_fill == IF style.fill.st = "absent" THEN TVal(NoneText) ELSE style.fill
        vary_fill == style.vary_fill # "false"
    IN  IF base_fill.st = "none" \/ base_fill.v = <<>> \/ Lower(base_fill.v) = NoneText
        THEN FillText(NoneText)
        ELSE LET attr_value == IF style.fill_by # "" /\ DOMAIN style.color_map # {}
                               THEN RowAttr(row, cols, style.fill_by) ELSE TNone
             IN  IF attr_value.st = "val" /\ attr_value.v \in DOMAIN style.color_map
                 THEN IF vary_fill
                      THEN FillVaried(VaryColor(Lstrip(style.color_map[attr_value.v]),
                                                index, MappedVariation))
                      ELSE FillText(style.color_map[attr_value.v])
                 ELSE IF vary_fill
                      THEN FillVaried(VaryColor(Lstrip(base_fill.v), index, DefaultVariation))
                      ELSE FillText(base_fill.v)

\* for idx, row in enumerate(gdf.itertuples()): get_feature_color(row, style, idx)
Fills(gdf, style) ==
    [i \in DOMAIN gdf.rows |-> GetFeatureColor(gdf.rows[i], gdf.cols, style, i - 1)]

(***************************************************************************)
(* maury/pipeline.py                                                       *)
(* LayerConfig declares neither `bounds` nor `filter`: the two layer-level *)
(* steps of process_layers that read them are outside the model.           *)
(***************************************************************************)
\* a dict in insertion order: d[k] = v
DictSet(d, k, v) ==
    IF \E i \in DOMAIN d : d[i].name = k
    THEN [i \in DOMAIN d |-> IF d[i].name = k THEN [name |-> k, gdf |-> v] ELSE d[i]]
    ELSE Append(d, [name |-> k, gdf |-> v])

DictKeys(d) == [i \in DOMAIN d |-> d[i].name]

\* sorted(layers, key=lambda x: x.order) with equal orders in reverse input order
RECURSIVE SortedByOrderTiesReversed(_)
SortedByOrderTiesReversed(ls) ==
    IF ls = <<>> THEN <<>>
    ELSE LET x == ls[Len(ls)]
             s == SortedByOrderTiesReversed(SubSeq(ls, 1, Len(ls) - 1))
             k == Cardinality({i \in DOMAIN s : s[i].order < x.order})
         IN  SubSeq(s, 1, k) \o <<x>> \o SubSeq(s, k + 1, Len(s))

\* sorted(layers, key=lambda x: x.order): ascending, stable
RECURSIVE SortedByOrder(_)
SortedByOrder(ls) ==
    IF ls = <<>> THEN <<>>
    ELSE LET x == ls[Len(ls)]
             s == SortedByOrder(SubSeq(ls, 1, Len(ls) - 1))
             k == Cardinality({i \in DOMAIN s : s[i].order <= x.order})
         IN  SubSeq(s, 1, k) \o <<x>> \o SubSeq(s, k + 1, Len(s))

\* shapely box(west, south, east, north): the rectangle spanned by the corners
Box(b) ==
    [nan |-> FALSE,
     minx |-> IF b[1] <= b[3] THEN b[1] ELSE b[3],
     maxx |-> IF b[1] <= b[3] THEN b[3] ELSE b[1]]

IsBox(bounds_config) == bounds_config.kind = "list" /\ Len(bounds_config.list) = 4

\* gpd.read_file(path, bbox=bbox): the features that intersect the box, whole
ReadFile(file, bounds_config) ==
    IF IsBox(bounds_config)
    THEN FilterRows(file, LAMBDA row : \E a \in row.geom : InBox(Box(bounds_config.list), a[1]))
    ELSE file

\* Pipeline.prepare: the names that got a path, or the exception fetch raised
RECURSIVE Prepare(_, _)
Prepare(names, outcome) ==
    IF names = <<>> THEN [ok |-> TRUE, paths |-> <<>>]
    ELSE LET o == outcome[Head(names)]
             rest == Prepare(Tail(names), outcome)
         IN  IF o = "path"
             THEN [ok |-> rest.ok, paths |-> IF rest.ok THEN <<Head(names)>> \o rest.paths
                                                       ELSE <<>>]
             ELSE IF o = "NotImplementedError" THEN rest
             ELSE [ok |-> FALSE, paths |-> <<>>]

\* Pipeline.load_sources
LoadSources(ps, fs, bounds_config) ==
    [n \in Range(ps) |-> ReadFile(fs[n], bounds_config)]

\* pd.concat(normalized_gdfs, ignore_index=True) under crs
RECURSIVE ConcatRows(_)
ConcatRows(gdfs) ==
    IF gdfs = <<>> THEN <<>> ELSE Head(gdfs).rows \o ConcatRows(Tail(gdfs))

Concat(gdfs, crs) ==
    LET rows == ConcatRows(gdfs)
    IN  [crs |-> crs,
         cols |-> UNION {gdfs[i].cols : i \in DOMAIN gdfs},
         rows |-> [i \in DOMAIN rows |-> [rows[i] EXCEPT !.idx = i - 1]]]

\* the source collections of a layer: those of its source names that are loaded
SourceGdfs(layer_config, srcs) ==
    LET source_names == AsList(layer_config.source)
        loaded == SelectSeq(source_names, LAMBDA n : n \in DOMAIN srcs)
    IN  [i \in DOMAIN loaded |-> srcs[loaded[i]]]

\* the sources concatenated as they are stored, under the label EPSG:4326
CombineUnprojected(source_gdfs) ==
    IF Len(source_gdfs) = 1 THEN source_gdfs[1] ELSE Concat(source_gdfs, "EPSG:4326")

\* one collection for the layer: a copy of the single source, or the sources
\* normalised to EPSG:4326 and concatenated
Combine(source_gdfs) ==
    IF Len(source_gdfs) = 1 THEN source_gdfs[1]
    ELSE Concat([i \in DOMAIN source_gdfs |->
                    IF source_gdfs[i].crs # "EPSG:4326"
                    THEN ToCrs(source_gdfs[i], "EPSG:4326") ELSE source_gdfs[i]],
                "EPSG:4326")

\* OperationConfig.model_dump(): every declared field is a key, None when unset;
\* `min_area` and `min_hole_area` are not fields, so never keys
ModelDump(op) ==
    [type |-> op.type, target |-> op.target, tolerance |-> op.tolerance,
     preserve_topology |-> op.preserve_topology, distance |-> op.distance,
     min_area_km2 |-> op.min_area_km2,
     min_area |-> Absent, min_hole_area |-> Absent]

\* the body of the loop of process_layers for one layer
ComposeLayer(layer_config, srcs) ==
    LET gdf == Combine(SourceGdfs(layer_config, srcs))
        operations == [i \in DOMAIN layer_config.operations |->
                            ModelDump(layer_config.operations[i])]
    IN  IF operations # <<>> THEN ProcessLayer(gdf, operations, srcs) ELSE Ok(gdf)

\* the sources with the layers composed so far laid over them, by name
WithLayers(srcs, ls) ==
    [n \in DOMAIN srcs \cup {ls[i].name : i \in DOMAIN ls} |->
        IF \E i \in DOMAIN ls : ls[i].name = n
        THEN (CHOOSE e \in Range(ls) : e.name = n).gdf
        ELSE srcs[n]]

\* the loop of process_layers handing the composed layers to the operations too
RECURSIVE ComposeAllSeeingLayers(_, _, _)
ComposeAllSeeingLayers(sorted_layers, srcs, st) ==
    IF sorted_layers = <<>> \/ ~st.ok THEN st
    ELSE LET layer_config == Head(sorted_layers)
             visited == Append(st.visited, layer_config.name)
         IN  IF SourceGdfs(layer_config, srcs) = <<>>
             THEN ComposeAllSeeingLayers(Tail(sorted_layers), srcs,
                                         [st EXCEPT !.visited = visited])
             ELSE LET gdf == Combine(SourceGdfs(layer_config, srcs))
                      operations == [i \in DOMAIN layer_config.operations |->
                                        ModelDump(layer_config.operations[i])]
                      res == IF operations # <<>>
                             THEN ProcessLayer(gdf, operations, WithLayers(srcs, st.layers))
                             ELSE Ok(gdf)
                  IN  IF res.ok
                      THEN ComposeAllSeeingLayers(Tail(sorted_layers), srcs,
                                [st EXCEPT !.visited = visited,
                                    !.layers = DictSet(@, layer_config.name, res.gdf)])
                      ELSE [st EXCEPT !.ok = FALSE, !.visited = visited]

\* the loop of process_layers over the sorted layers; st = [ok, layers, visited]
RECURSIVE ComposeAll(_, _, _)
ComposeAll(sorted_layers, srcs, st) ==
    IF sorted_layers = <<>> \/ ~st.ok THEN st
    ELSE LET layer_config == Head(sorted_layers)
             visited == Append(st.visited, layer_config.name)
         IN  IF SourceGdfs(layer_config, srcs) = <<>>
             THEN ComposeAll(Tail(sorted_layers), srcs, [st EXCEPT !.visited = visited])
             ELSE LET res == ComposeLayer(layer_config, srcs)
                  IN  IF res.ok
                      THEN ComposeAll(Tail(sorted_layers), srcs,
                                [st EXCEPT !.visited = visited,
                                    !.layers = DictSet(@, layer_config.name, res.gdf)])
                      ELSE [st EXCEPT !.ok = FALSE, !.visited = visited]

\* _clip_to_bounds keeping only the features the box cuts, not those it contains
ClipToBoundsCrossingOnly(ls, bounds_config) ==
    IF IsBox(bounds_config)
    THEN [i \in DOMAIN ls |->
            [ls[i] EXCEPT !.gdf =
                ClipToBox(FilterRows(@, LAMBDA row :
                                \E c \in row.geom : ~InBox(Box(bounds_config.list), c[1])),
                          Box(bounds_config.list))]]
    ELSE ls

\* Pipeline._clip_to_bounds
ClipToBounds(ls, bounds_config) ==
    IF bounds_config.kind = "str" /\ bounds_config.str = "auto" THEN ls
    ELSE IF IsBox(bounds_config)
    THEN [i \in DOMAIN ls |->
            [ls[i] EXCEPT !.gdf = ClipToBox(@, Box(bounds_config.list))]]
    ELSE ls

\* Pipeline.process_layers
ProcessLayers(r, srcs) ==
    LET st == ComposeAll(SortedByOrder(r.layers), srcs,
                         [ok |-> TRUE, layers |-> <<>>, visited |-> <<>>])
    IN  IF st.ok THEN [st EXCEPT !.layers = ClipToBounds(@, r.bounds)] ELSE st

(***************************************************************************)
(* Which object each statement writes.  A collection object is known by     *)
(* the name of the source it is, or is a new object; the four column        *)
(* writes of geometry.py (lines 35, 117, 139, 247) each go to the object    *)
(* that gdf.copy() returned.                                                *)
(***************************************************************************)
Fresh == "<new object>"

\* a copy that is the object copied
CopyAliasing(obj) == obj

\* GeoDataFrame.copy(): a new object
Copy(obj) == Fresh

\* the source dict after the column writes, in order; a write is [obj, gdf]
RECURSIVE ApplyWrites(_, _)
ApplyWrites(srcs, writes) ==
    IF writes = <<>> THEN srcs
    ELSE ApplyWrites(IF Head(writes).obj \in DOMAIN srcs
                     THEN [srcs EXCEPT ![Head(writes).obj] = Head(writes).gdf]
                     ELSE srcs,
                     Tail(writes))

\* subtract, target by target: the write goes to gdf.copy(), the row filter
\* returns a new object; st = [obj, gdf, writes]
RECURSIVE SubtractEachWrites(_, _, _)
SubtractEachWrites(st, targets, sources) ==
    IF targets = <<>> THEN st
    ELSE SubtractEachWrites(
            IF Head(targets) \in DOMAIN sources
            THEN [obj |-> Fresh,
                  gdf |-> Subtract(st.gdf, sources[Head(targets)]),
                  writes |-> Append(st.writes,
                                [obj |-> Copy(st.obj),
                                 gdf |-> Difference(st.gdf, sources[Head(targets)])])]
            ELSE st,
            Tail(targets), sources)

\* one operation that does not raise: the object `result` is bound to after it
\* and the column writes it made
OpWrites(st, op, sources) ==
    LET out == ApplyOp(st.gdf, op, sources).gdf
    IN  CASE op.type = "subtract" -> SubtractEachWrites(st, TargetsOf(op), sources)
          [] op.type \in {"simplify", "remove_holes"} ->
                [obj |-> Copy(st.obj), gdf |-> out,
                 writes |-> Append(st.writes, [obj |-> Copy(st.obj), gdf |-> out])]
          [] op.type = "buffer" ->
                [obj |-> Fresh, gdf |-> out,
                 writes |-> Append(st.writes,
                                [obj |-> Copy(st.obj),
                                 gdf |-> Buffered(st.gdf, op.distance.v)])]
          [] op.type \in {"merge", "extract_islands"} -> [st EXCEPT !.obj = Fresh, !.gdf = out]
          [] op.type = "clip" ->
                IF op.target.kind = "str" /\ op.target.str # "bounds"
                   /\ op.target.str \in DOMAIN sources
                THEN [st EXCEPT !.obj = Fresh, !.gdf = out] ELSE st
          [] op.type = "exclude" ->
                IF \E k \in DOMAIN TargetsOf(op) : TargetsOf(op)[k] \in DOMAIN sources
                THEN [st EXCEPT !.obj = Fresh, !.gdf = out] ELSE st
          [] OTHER -> st

\* the loop of process_layer up to the operation that raises, if any
RECURSIVE ProcessOpsWrites(_, _, _)
ProcessOpsWrites(st, operations, sources) ==
    IF operations = <<>> \/ ~ApplyOp(st.gdf, Head(operations), sources).ok THEN st
    ELSE ProcessOpsWrites(OpWrites(st, Head(operations), sources),
                          Tail(operations), sources)

\* the body of the loop of process_layers for one layer with a loaded source:
\* gdf is source_gdfs[0].copy() or the new frame of pd.concat, and process_layer
\* starts from gdf.copy()
ComposeLayerWrites(layer_config, srcs) ==
    LET loaded == SelectSeq(AsList(layer_config.source), LAMBDA n : n \in DOMAIN srcs)
        obj == IF Len(loaded) = 1 THEN Copy(loaded[1]) ELSE Fresh
        gdf == Combine(SourceGdfs(layer_config, srcs))
        operations == [i \in DOMAIN layer_config.operations |->
                            ModelDump(layer_config.operations[i])]
    IN  IF operations # <<>>
        THEN ProcessOpsWrites([obj |-> Copy(obj), gdf |-> gdf, writes |-> <<>>],
                              operations, srcs)
        ELSE [obj |-> obj, gdf |-> gdf, writes |-> <<>>]

\* the loop of process_layers: the source dict after the writes of each layer and
\* the object of each composed layer; st = [sources, objs]
RECURSIVE ComposeAllWrites(_, _)
ComposeAllWrites(sorted_layers, st) ==
    IF sorted_layers = <<>> THEN st
    ELSE LET layer_config == Head(sorted_layers)
         IN  IF SourceGdfs(layer_config, st.sources) = <<>>
             THEN ComposeAllWrites(Tail(sorted_layers), st)
             ELSE LET w == ComposeLayerWrites(layer_config, st.sources)
                      after == ApplyWrites(st.sources, w.writes)
                  IN  IF ComposeLayer(layer_config, st.sources).ok
                      THEN ComposeAllWrites(Tail(sorted_layers),
                                [sources |-> after,
                                 objs |-> DictSet(st.objs, layer_config.name, w.obj)])
                      ELSE [st EXCEPT !.sources = after]

\* process_layers and _clip_to_bounds: gdf.clip returns a new object per layer
ProcessLayersWrites(r, srcs) ==
    LET st == ComposeAllWrites(SortedByOrder(r.layers), [sources |-> srcs, objs |-> <<>>])
    IN  IF IsBox(r.bounds)
        THEN [st EXCEPT !.objs = [i \in DOMAIN @ |-> [@[i] EXCEPT !.gdf = Fresh]]]
        ELSE st

(***************************************************************************)
(* Pipeline._apply_filter.  A text is a sequence of characters; a row of    *)
(* the collection is [idx, attrs], attrs giving a text per attribute; a      *)
(* filter is the sequence of its items, each [key, value]; a key is          *)
(* [text, suffix, column]: the key, the suffix key.endswith finds and the    *)
(* key without that suffix; a value is [kind: "scalar" or "list", v].        *)
(***************************************************************************)
\* re.search(pattern, text) for patterns of letters and ".", any one character
RegexSearch(pattern, text) ==
    \E i \in 0..(Len(text) - Len(pattern)) :
        \A k \in 1..Len(pattern) : pattern[k] = "." \/ pattern[k] = text[i + k]

\* pattern in text
IsSubstring(pattern, text) ==
    \E i \in 0..(Len(text) - Len(pattern)) :
        \A k \in 1..Len(pattern) : pattern[k] = text[i + k]

\* Series.str.contains(value, case=False, na=False): a regular expression
\* search that ignores case
StrContains(text, value) == RegexSearch(Lower(value), Lower(text))

\* Series.str.contains(value, case=False, regex=False)
StrContainsLiteral(text, value) == IsSubstring(Lower(value), Lower(text))

\* result[mask], the rows keeping their index
KeepRows(gdf, Keeps(_)) == [gdf EXCEPT !.rows = SelectSeq(@, Keeps)]

\* value if isinstance(value, list) else [value]
ValuesOf(value) == IF value.kind = "list" THEN value.v ELSE {value.v}

\* one pass of the loop over filter_config.items()
FilterItem(result, key, value) ==
    CASE key.suffix = "_contains" ->
            IF key.column \in result.cols
            THEN KeepRows(result, LAMBDA row : StrContains(row.attrs[key.column], value.v))
            ELSE result
      [] key.suffix = "_in" ->
            IF key.column \in result.cols
            THEN KeepRows(result, LAMBDA row : row.attrs[key.column] \in ValuesOf(value))
            ELSE result
      [] key.text = "counties" -> result
      [] OTHER ->
            IF key.text \in result.cols
            THEN IF value.kind = "list"
                 THEN KeepRows(result, LAMBDA row : row.attrs[key.text] \in value.v)
                 ELSE KeepRows(result, LAMBDA row : row.attrs[key.text] = value.v)
            ELSE result

RECURSIVE ApplyFilter(_, _)
ApplyFilter(gdf, filter_config) ==
    IF filter_config = <<>> THEN gdf
    ELSE ApplyFilter(FilterItem(gdf, Head(filter_config).key, Head(filter_config).value),
                     Tail(filter_config))

\* "source:<name>"[7:] for the bounds strings of the model
SourcePrefixed == [s \in {"source:towns", "source:water"} |->
                        IF s = "source:towns" THEN "towns" ELSE "water"]

NoBounds == [kind |-> "none", nan |-> FALSE, minx |-> 0, maxx |-> 0]
BoundsTuple(nan, minx, maxx) == [kind |-> "tuple", nan |-> nan, minx |-> minx, maxx |-> maxx]

Min(S) == CHOOSE x \in S : \A y \in S : x <= y
Max(S) == CHOOSE x \in S : \A y \in S : x >= y

\* the componentwise min / max of the total_bounds of the collections that have
\* rows (not gdf.empty); None if there is none; NaN propagates
CombinedBounds(gdfs) ==
    LET all_bounds == {TotalBounds(gdfs[i]) : i \in {j \in DOMAIN gdfs : gdfs[j].rows # <<>>}}
    IN  IF all_bounds = {} THEN NoBounds
        ELSE IF \E b \in all_bounds : b.nan THEN BoundsTuple(TRUE, 0, 0)
        ELSE BoundsTuple(FALSE, Min({b.minx : b \in all_bounds}),
                                Max({b.maxx : b \in all_bounds}))

\* Pipeline._get_output_bounds
GetOutputBounds(bounds_config, ls, srcs) ==
    IF bounds_config.kind = "str" /\ bounds_config.str = "auto"
    THEN CombinedBounds([i \in DOMAIN ls |-> ls[i].gdf])
    ELSE IF bounds_config.kind = "list"
    THEN BoundsTuple(FALSE, bounds_config.list[1], bounds_config.list[3])
    ELSE IF bounds_config.str \in DOMAIN SourcePrefixed
    THEN LET source_name == SourcePrefixed[bounds_config.str]
         IN  IF source_name \in DOMAIN srcs
             THEN LET tb == TotalBounds(srcs[source_name])
                  IN  BoundsTuple(tb.nan, tb.minx, tb.maxx)
             ELSE NoBounds
    ELSE NoBounds

\* layer_name.replace(" ", "_").replace("-", "_") for the layer names of the model
GroupId(layer_name) == IF layer_name = "land-use" THEN "land_use" ELSE layer_name

\* the style dict _export_svg builds: stroke, stroke_width and `fill or "none"`
ExportStyle(layer_config) ==
    [fill |-> IF layer_config.style.fill.st = "val" /\ layer_config.style.fill.v # <<>>
              THEN layer_config.style.fill
              ELSE TVal(NoneText),
     fill_by |-> "", color_map |-> [k \in {} |-> <<>>], vary_fill |-> "absent"]

\* _export_svg, the body of the loop over the qualities: the layers of the recipe,
\* sorted, that were composed, each simplified if q_simplify > 0, with its style
LayersDict(r, ls, q_simplify) ==
    LET sorted_layer_configs == SortedByOrder(r.layers)
        present == SelectSeq(sorted_layer_configs,
                             LAMBDA lc : \E i \in DOMAIN ls : ls[i].name = lc.name)
    IN  [i \in DOMAIN present |->
            LET gdf == (CHOOSE e \in Range(ls) : e.name = present[i].name).gdf
            IN  [name |-> present[i].name,
                 gdf |-> IF q_simplify > 0 THEN Simplify(gdf, q_simplify, TRUE) ELSE gdf,
                 style |-> ExportStyle(present[i])]]

\* SVGExporter.export_layer: the bounds the document is drawn with and the fill
\* of each feature
ExportLayer(gdf, bounds, style) ==
    LET tb == TotalBounds(gdf)
    IN  [bounds |-> IF bounds.kind = "none" THEN BoundsTuple(tb.nan, tb.minx, tb.maxx)
                    ELSE bounds,
         fills |-> Fills(gdf, style)]

\* the features of the combined document numbered through all the layers
FillsNumberedThrough(layers, i) ==
    LET before == Flatten([k \in 1..(i - 1) |-> layers[k].gdf.rows])
    IN  [j \in DOMAIN layers[i].gdf.rows |->
            GetFeatureColor(layers[i].gdf.rows[j], layers[i].gdf.cols, layers[i].style,
                            Len(before) + j - 1)]

\* the fills of the features of one group of the combined document
GroupFills(layers, i) == Fills(layers[i].gdf, layers[i].style)

\* SVGExporter.export_multi_layer: the bounds the document is drawn with and one
\* group per layer, in the order of the dict
ExportMultiLayer(layers, bounds) ==
    LET computed == CombinedBounds([i \in DOMAIN layers |-> layers[i].gdf])
    IN  [bounds |-> IF bounds.kind # "none" THEN bounds
                    ELSE IF computed.kind # "none" THEN computed
                    ELSE BoundsTuple(FALSE, 0, 1),
         groups |-> [i \in DOMAIN layers |->
                        [id |-> GroupId(layers[i].name), gdf |-> layers[i].gdf,
                         fills |-> GroupFills(layers, i)]]]

\* kelley.render_svg with per_layer and combined: the numbered per-layer files of
\* the layers that have rows, and combined.svg
RenderSvg(layers_dict, bounds) ==
    LET b == IF bounds.kind = "none"
             THEN CombinedBounds([i \in DOMAIN layers_dict |-> layers_dict[i].gdf])
             ELSE bounds
        numbered == [i \in DOMAIN layers_dict |->
                        LET doc == ExportLayer(layers_dict[i].gdf, b, layers_dict[i].style)
                        IN  [i |-> i, name |-> layers_dict[i].name,
                             gdf |-> layers_dict[i].gdf,
                             bounds |-> doc.bounds, fills |-> doc.fills]]
        combined == ExportMultiLayer(layers_dict, b)
    IN  [written |-> TRUE,
         files |-> SelectSeq(numbered, LAMBDA f : f.gdf.rows # <<>>),
         bounds |-> combined.bounds,
         groups |-> combined.groups]

\* the quality of _export_svg when the format declares none
DefaultQuality == [name |-> "default", simplify |-> 1]

\* Pipeline._export_svg: the bounds are computed once, then one render per quality
ExportSvg(r, ls, srcs) ==
    LET qualities == IF r.quality = <<>> THEN <<DefaultQuality>> ELSE r.quality
        bounds == GetOutputBounds(r.bounds, ls, srcs)
    IN  [written |-> TRUE,
         tiers |-> [q \in DOMAIN qualities |->
                       [q_name |-> qualities[q].name,
                        out |-> RenderSvg(LayersDict(r, ls, qualities[q].simplify),
                                          bounds)]]]

\* _export_svg: gdf = self.layers[name].copy(), and simplify writes the column of
\* its own copy, once per layer and quality with q_simplify > 0
ExportWrites(r, ls, objs) ==
    LET qualities == IF r.quality = <<>> THEN <<DefaultQuality>> ELSE r.quality
    IN  Flatten([q \in DOMAIN qualities |->
            IF qualities[q].simplify > 0
            THEN [i \in DOMAIN ls |->
                    [obj |-> Copy(Copy((CHOOSE e \in Range(objs) : e.name = ls[i].name).gdf)),
                     gdf |-> Simplify(ls[i].gdf, qualities[q].simplify, TRUE)]]
            ELSE <<>>])

(***************************************************************************)
(* cli.py: the build command, on bounded recipes, fetch outcomes and files *)
(***************************************************************************)
\* the third layer has the name of a source
BuildLayerNames == <<"land-use", "lakes", "towns", "labels">>

\* an OperationConfig: unset optional fields are None
COp(type, target, tolerance, distance) ==
    [type |-> type, target |-> target, tolerance |-> tolerance,
     preserve_topology |-> TRUE, distance |-> distance, min_area_km2 |-> NoneVal]

BuildBodies ==
    {[source |-> Str("towns"), operations |-> <<>>],
     [source |-> Str("water"),
      operations |-> <<COp("subtract", Str("towns"), NoneVal, NoneVal)>>],
     [source |-> List(<<"towns", "water">>),
      operations |-> <<COp("merge", NoneRef, NoneVal, NoneVal)>>],
     [source |-> Str("water"),
      operations |-> <<COp("simplify", NoneRef, NoneVal, NoneVal)>>],
     [source |-> Str("rivers"), operations |-> <<>>],
     [source |-> Str("towns"),
      operations |-> <<COp("subtract", Str("lakes"), NoneVal, NoneVal)>>]}

Orders == {1, 2}

\* the StyleConfig of the layers, by position: fill unset (None) or a colour
BuildStyles ==
    <<[fill |-> TNone], [fill |-> TVal(<<"#", "a", "5", "d", "6", "a", "7">>)],
      [fill |-> TVal(<<"#", "9", "0", "c", "a", "f", "9">>)], [fill |-> TNone]>>

MkBuildLayers(f, o) ==
    [i \in DOMAIN f |-> [name |-> BuildLayerNames[i], source |-> f[i].source,
                         operations |-> f[i].operations, order |-> o[i],
                         style |-> BuildStyles[i]]]

BuildLayerSeqs ==
    UNION {{MkBuildLayers(f, o) : f \in [1..n -> BuildBodies], o \in [1..n -> Orders]} :
                n \in 1..MaxBuildLayers}

BuildBounds == {Str("auto"), Str("source:towns"), List(<<1, 0, MaxCoord, 0>>)}

\* formats[svg].quality: unset, or a coarse and an unsimplified tier
BuildQualities ==
    {<<>>, <<[name |-> "draft", simplify |-> 2 * SpurWidth],
             [name |-> "final", simplify |-> 0]>>}

BuildRecipes ==
    {[sources |-> <<"towns", "water">>, layers |-> ls, bounds |-> b, quality |-> q] :
        ls \in BuildLayerSeqs, b \in BuildBounds, q \in BuildQualities}
    \cup {[sources |-> <<"towns", "water">>, bounds |-> List(<<0, MaxCoord, 1, 0>>),
           quality |-> <<>>,
           layers |-> MkBuildLayers(<<[source |-> Str("towns"), operations |-> <<>>]>>, <<1>>)]}

FetchOutcomes ==
    {[n \in {"towns", "water"} |-> IF n = "towns" THEN t ELSE w] :
        t \in {"path", "NotImplementedError"},
        w \in {"path", "NotImplementedError", "ConnectionError"}}

WaterFiles ==
    {MkGdf("EPSG:4326", <<Solid(1)>>),
     MkGdf("EPSG:4326", <<Solid(2) \cup Solid(3), Solid(0)>>),
     MkGdf("EPSG:4269", <<{Core(1)}, Solid(3) \cup {Spur(4)}>>)}

FileContents ==
    {[n \in {"towns", "water"} |-> IF n = "towns" THEN Towns ELSE w] : w \in WaterFiles}

BuildInit ==
    /\ DownloadIdle
    /\ recipe \in BuildRecipes
    /\ parsed = "raw"
    /\ parseError = BoundsAccepted
    /\ validated = FALSE
    /\ errors = <<>>
    /\ OpsIdle
    /\ pc = "start"
    /\ dryRun \in BOOLEAN
    /\ exitStatus = -1
    /\ console = <<>>
    /\ ran = <<>>
    /\ fetchOutcome \in FetchOutcomes
    /\ files \in FileContents
    /\ paths = <<>>
    /\ selfSources = [n \in {} |-> NoFrame]
    /\ selfLayers = <<>>
    /\ processing = <<>>
    /\ svg = NoSvg

\* r = Recipe.from_file(recipe); an exception ends the command with status 1
BuildLoadRecipe ==
    /\ pc = "start"
    /\ LET res == ValidateBounds(recipe.bounds)
       IN  /\ parsed' = IF res.ok THEN "ok" ELSE "rejected"
           /\ parseError' = res
           /\ pc' = IF res.ok THEN "loaded" ELSE "exit"
           /\ exitStatus' = IF res.ok THEN exitStatus ELSE 1
    /\ UNCHANGED <<downloadVars, recipe, validated, errors, opVars, dryRun, console, ran, fetchOutcome,
                   files, paths, selfSources, selfLayers, processing, svg>>

\* the validation step without `if errors:`
BuildValidateNoAbort ==
    /\ pc = "loaded"
    /\ errors' = ValidateReferences(recipe)
    /\ validated' = TRUE
    /\ pc' = IF dryRun THEN "exit" ELSE "pipeline"
    /\ exitStatus' = IF dryRun THEN 0 ELSE exitStatus
    /\ UNCHANGED <<downloadVars, recipe, parsed, parseError, opVars, dryRun, console, ran, fetchOutcome,
                   files, paths, selfSources, selfLayers, processing, svg>>

\* errors = r.validate_references(); if errors: print each, exit 1;
\* if dry_run: return; pipeline = Pipeline(r)
BuildValidate ==
    /\ pc = "loaded"
    /\ LET errs == ValidateReferences(recipe)
       IN  /\ errors' = errs
           /\ validated' = TRUE
           /\ IF errs # <<>>
              THEN /\ console' = errs
                   /\ exitStatus' = 1
                   /\ pc' = "exit"
              ELSE /\ console' = console
                   /\ exitStatus' = IF dryRun THEN 0 ELSE exitStatus
                   /\ pc' = IF dryRun THEN "exit" ELSE "pipeline"
    /\ UNCHANGED <<downloadVars, recipe, parsed, parseError, opVars, dryRun, ran, fetchOutcome,
                   files, paths, selfSources, selfLayers, processing, svg>>

\* Pipeline.build, step 1; an exception of fetch ends the command with status 1
PipelinePrepare ==
    /\ pc = "pipeline"
    /\ ran' = Append(ran, "prepare")
    /\ LET res == Prepare(recipe.sources, fetchOutcome)
       IN  /\ paths' = res.paths
           /\ pc' = IF res.ok THEN "prepared" ELSE "exit"
           /\ exitStatus' = IF res.ok THEN exitStatus ELSE 1
    /\ UNCHANGED <<downloadVars, recipeVars, opVars, dryRun, console, fetchOutcome, files,
                   selfSources, selfLayers, processing, svg>>

\* Pipeline.build, step 2
PipelineLoadSources ==
    /\ pc = "prepared"
    /\ ran' = Append(ran, "load_sources")
    /\ selfSources' = LoadSources(paths, files, recipe.bounds)
    /\ pc' = "sources_loaded"
    /\ UNCHANGED <<downloadVars, recipeVars, opVars, dryRun, exitStatus, console, fetchOutcome, files,
                   paths, selfLayers, processing, svg>>

\* Pipeline.build, step 3; an exception of an operation ends the command with status 1
PipelineProcessLayers ==
    /\ pc = "sources_loaded"
    /\ ran' = Append(ran, "process_layers")
    /\ LET st == ProcessLayers(recipe, selfSources)
       IN  /\ selfLayers' = st.layers
           /\ processing' = st.visited
           /\ pc' = IF st.ok THEN "processed" ELSE "exit"
           /\ exitStatus' = IF st.ok THEN exitStatus ELSE 1
    /\ selfSources' = ProcessLayersWrites(recipe, selfSources).sources
    /\ UNCHANGED <<downloadVars, recipeVars, opVars, dryRun, console, fetchOutcome, files, paths,
                   svg>>

\* Pipeline.build, step 4 (one svg format, default options), and the normal end
\* of the command
PipelineExport ==
    /\ pc = "processed"
    /\ ran' = Append(ran, "export")
    /\ svg' = ExportSvg(recipe, selfLayers, selfSources)
    /\ selfSources' = ApplyWrites(selfSources,
                            ExportWrites(recipe, selfLayers,
                                         ProcessLayersWrites(recipe, selfSources).objs))
    /\ pc' = "exit"
    /\ exitStatus' = 0
    /\ UNCHANGED <<downloadVars, recipeVars, opVars, dryRun, console, fetchOutcome, files, paths,
                   selfLayers, processing>>

BuildNext ==
    \/ BuildLoadRecipe
    \/ BuildValidate
    \/ PipelinePrepare
    \/ PipelineLoadSources
    \/ PipelineProcessLayers
    \/ PipelineExport

SpecBuild == BuildInit /\ [][BuildNext]_vars

(***************************************************************************)
(* Pipeline.build called on a recipe object: prepare, load_sources,        *)
(* process_layers, export, on layers with one operation each               *)
(***************************************************************************)
\* the islands declared with a minimum area
MinArea == 2

IslandsOp(min_area_km2) ==
    [COp("extract_islands", NoneRef, NoneVal, NoneVal) EXCEPT !.min_area_km2 = min_area_km2]

ComposeBodies ==
    {[source |-> Str("towns"), operations |-> <<>>],
     [source |-> Str("water"), operations |-> <<IslandsOp(NoneVal)>>],
     [source |-> Str("water"), operations |-> <<IslandsOp(Val(MinArea))>>],
     [source |-> Str("water"),
      operations |-> <<COp("simplify", NoneRef, NoneVal, NoneVal)>>],
     [source |-> Str("water"),
      operations |-> <<COp("simplify", NoneRef, Val(2 * SpurWidth), NoneVal)>>],
     [source |-> Str("water"),
      operations |-> <<COp("buffer", NoneRef, NoneVal, NoneVal)>>],
     [source |-> Str("water"),
      operations |-> <<COp("buffer", NoneRef, NoneVal, Val(1))>>],
     [source |-> List(<<"towns", "water">>), operations |-> <<>>],
     [source |-> List(<<"water", "towns">>), operations |-> <<>>],
     [source |-> Str("water"),
      operations |-> <<COp("subtract", Str("towns"), NoneVal, NoneVal)>>],
     [source |-> Str("water"),
      operations |-> <<COp("remove_holes", NoneRef, NoneVal, NoneVal)>>]}

ComposeLayerSeqs ==
    UNION {{MkBuildLayers(f, [i \in 1..n |-> 1]) : f \in [1..n -> ComposeBodies]} :
                n \in 1..MaxLayers}

ComposeRecipes ==
    {[sources |-> <<"towns", "water">>, layers |-> ls, bounds |-> b, quality |-> <<>>] :
        ls \in ComposeLayerSeqs, b \in {Str("auto"), List(<<1, 0, MaxCoord, 0>>)}}

ComposeOutcomes ==
    {[n \in {"towns", "water"} |-> IF n = "towns" THEN t ELSE w] :
        t \in {"path", "NotImplementedError"}, w \in {"path", "NotImplementedError"}}

\* files with interior rings, spikes and the two coordinate systems
ComposeFiles ==
    {[n \in {"towns", "water"} |-> IF n = "towns" THEN t ELSE w] :
        t \in {Towns, MkGdf("EPSG:4269", <<Solid(2), Solid(0)>>)},
        w \in {MkGdf("EPSG:4326", <<{Rim(1)} \cup Solid(2), {Rim(3)}>>),
               MkGdf("EPSG:4269", <<Solid(1) \cup {Spur(0)}, {Rim(2), Rim(3)}>>)}}

LayersInit ==
    /\ DownloadIdle
    /\ recipe \in ComposeRecipes
    /\ parsed = "ok"
    /\ parseError = BoundsAccepted
    /\ validated = FALSE
    /\ errors = <<>>
    /\ OpsIdle
    /\ pc = "pipeline"
    /\ dryRun = FALSE
    /\ exitStatus = -1
    /\ console = <<>>
    /\ ran = <<>>
    /\ fetchOutcome \in ComposeOutcomes
    /\ files \in ComposeFiles
    /\ paths = <<>>
    /\ selfSources = [n \in {} |-> NoFrame]
    /\ selfLayers = <<>>
    /\ processing = <<>>
    /\ svg = NoSvg

LayersNext ==
    \/ PipelinePrepare
    \/ PipelineLoadSources
    \/ PipelineProcessLayers
    \/ PipelineExport

SpecLayers == LayersInit /\ [][LayersNext]_vars

(***************************************************************************)
(* Claims about recipe validation (checked under SpecValidate)             *)
(***************************************************************************)
\* the occurrences <<layer, position>> of a layer source name that is no key of sources
UnresolvedSourceRefs(r) ==
    {<<i, k>> \in (DOMAIN r.layers) \X (1..2) :
        /\ k \in DOMAIN AsList(r.layers[i].source)
        /\ AsList(r.layers[i].source)[k] \notin Range(r.sources)}

\* the occurrences <<layer, operation, position>> of an operation target name that is
\* neither a key of sources nor "bounds"
UnresolvedTargets(r) ==
    {<<i, j, k>> \in (DOMAIN r.layers) \X (1..2) \X (1..3) :
        /\ j \in DOMAIN r.layers[i].operations
        /\ k \in DOMAIN AsList(r.layers[i].operations[j].target)
        /\ AsList(r.layers[i].operations[j].target)[k] \notin Range(r.sources) \cup {"bounds"}}

\* the same, leaving out a target given as the bare empty string
UnresolvedNonEmptyTargets(r) ==
    {t \in UnresolvedTargets(r) : r.layers[t[1]].operations[t[2]].target # Str("")}

Names(msg, word) == \E i \in DOMAIN msg : msg[i] = word

\* C1: a recipe whose only defect is one layer source reference to an undefined
\* source gets exactly one error, and that error names the layer and the source.
C1_OneErrorNamesLayerAndSource ==
    (validated /\ Cardinality(UnresolvedSourceRefs(recipe)) = 1
               /\ UnresolvedTargets(recipe) = {})
    => /\ Len(errors) = 1
       /\ \A ref \in UnresolvedSourceRefs(recipe) :
            /\ Names(errors[1], recipe.layers[ref[1]].name)
            /\ Names(errors[1], AsList(recipe.layers[ref[1]].source)[ref[2]])

C1_Witness ==
    /\ validated
    /\ Len(recipe.layers) = 2
    /\ Cardinality(UnresolvedSourceRefs(recipe)) = 1
    /\ UnresolvedTargets(recipe) = {}
    /\ Len(errors) = 1

\* C3 (as stated): validate_references returns one entry per unresolved layer source
\* reference and one per operation target that is neither a source nor "bounds";
\* the list is empty exactly when every reference resolves.
C3_OneEntryPerUnresolvedReference ==
    validated =>
        /\ Len(errors) = Cardinality(UnresolvedSourceRefs(recipe))
                         + Cardinality(UnresolvedTargets(recipe))
        /\ (errors = <<>>) <=> (UnresolvedSourceRefs(recipe) = {}
                                /\ UnresolvedTargets(recipe) = {})

\* C3 (amended): one entry per unresolved layer source reference and one per
\* unresolved operation target, a target given as the empty string counting as no
\* target; the list is empty exactly when every such reference resolves.
C3_OneEntryPerNonEmptyReference ==
    validated =>
        /\ Len(errors) = Cardinality(UnresolvedSourceRefs(recipe))
                         + Cardinality(UnresolvedNonEmptyTargets(recipe))
        /\ (errors = <<>>) <=> (UnresolvedSourceRefs(recipe) = {}
                                /\ UnresolvedNonEmptyTargets(recipe) = {})

C3_Witness ==
    /\ validated
    /\ \E a, b \in UnresolvedSourceRefs(recipe) : a[1] # b[1]
    /\ UnresolvedNonEmptyTargets(recipe) # {}
    /\ Len(errors) >= 3

\* C4: a list-valued output.bounds is accepted exactly when it has four values with
\* south <= north; south > north is rejected with a message mentioning south and
\* north; west > east is accepted.
C4_BoundsAcceptedIffFourAndSouthLeNorth ==
    (parsed # "raw" /\ recipe.bounds.kind = "list") =>
        LET b == recipe.bounds.list
        IN  /\ (parsed = "ok") <=> (Len(b) = 4 /\ b[2] <= b[4])
            /\ (Len(b) = 4 /\ b[2] > b[4]) =>
                    /\ parsed = "rejected"
                    /\ {"south", "north"} \subseteq parseError.words
            /\ (Len(b) = 4 /\ b[2] <= b[4] /\ b[1] > b[3]) => parsed = "ok"

C4_Witness ==
    /\ parsed = "rejected"
    /\ recipe.bounds.kind = "list"
    /\ Len(recipe.bounds.list) = 4
    /\ recipe.bounds.list[2] > recipe.bounds.list[4]
    /\ recipe.bounds.list[1] > recipe.bounds.list[3]

(***************************************************************************)
(* Claims about the geometry operations (checked under SpecOps)            *)
(***************************************************************************)
\* the union of the geometries of the loaded targets of op, in the CRS crs
TargetUnion(op, crs) ==
    UNION {UnionAll(ToCrs(opSources[t], crs)) :
                t \in Range(AsList(op.target)) \cap DOMAIN opSources}

SubtractOnly ==
    /\ opResult.called
    /\ Len(opOps) = 1
    /\ opOps[1].type = "subtract"
    /\ Truthy(opOps[1].target)

\* C6: after a layer whose only operation is a subtract with one or more targets,
\* no feature overlaps any target feature: every base feature is replaced by its
\* difference against the union of all targets and the empty differences are dropped.
C6_SubtractRemovesAllTargets ==
    SubtractOnly =>
        LET U == TargetUnion(opOps[1], opGdf.crs)
            cut == [i \in DOMAIN opGdf.rows |-> [opGdf.rows[i] EXCEPT !.geom = @ \ U]]
        IN  /\ opResult.res.ok
            /\ opResult.res.gdf.rows = SelectSeq(cut, NonEmptyRow)
            /\ \A i \in DOMAIN opResult.res.gdf.rows :
                    /\ opResult.res.gdf.rows[i].geom \cap U = {}
                    /\ opResult.res.gdf.rows[i].geom # {}

C6_Witness ==
    /\ SubtractOnly
    /\ Cardinality(Range(AsList(opOps[1].target)) \cap DOMAIN opSources) = 2
    /\ opGdf.crs # opSources["water"].crs
    /\ Len(opResult.res.gdf.rows) = 1
    /\ Len(opGdf.rows) = 2
    /\ opResult.res.gdf.rows[1] \notin Range(opGdf.rows)

\* process_layer on a collection that process_layer returned (or raising as it did)
Then(first, operations) ==
    IF first.ok THEN ProcessLayer(first.gdf, operations, opSources) ELSE first

\* C7: the operations are applied in list order, each to the previous output: for
\* every split ops1 ++ ops2 of the list, process_layer(g, ops1 ++ ops2) equals
\* process_layer(process_layer(g, ops1), ops2).
C7_OperationsComposeInOrder ==
    opResult.called =>
        \A k \in 0..Len(opOps) :
            opResult.res = Then(ProcessLayer(opGdf, SubSeq(opOps, 1, k), opSources),
                                SubSeq(opOps, k + 1, Len(opOps)))

C7_Witness ==
    /\ opResult.called
    /\ Len(opOps) = 2
    /\ opResult.res.ok
    /\ LET mid == ProcessLayer(opGdf, SubSeq(opOps, 1, 1), opSources)
           swapped == ProcessLayer(opGdf, <<opOps[2], opOps[1]>>, opSources)
       IN  /\ mid.ok
           /\ mid.gdf # opGdf
           /\ mid.gdf # opResult.res.gdf
           /\ swapped # opResult.res

\* C9: whatever the input collection, the collection an operation sequence
\* produces holds only features with non-empty geometry.
C9_OperationOutputHasNoEmptyGeometry ==
    (opResult.called /\ opOps # <<>> /\ opResult.res.ok) =>
        \A i \in DOMAIN opResult.res.gdf.rows : opResult.res.gdf.rows[i].geom # {}

\* C10: subtract(subtract(A, B), B) has the same features, in the same order, with
\* the same geometries and attributes, as subtract(A, B).
C10_SubtractIdempotent ==
    \A i \in 1..(Len(subLog) - 1) :
        subLog[i].target = subLog[i + 1].target => subLog[i + 1].out = subLog[i].out

C10_Witness ==
    /\ Len(subLog) = 2
    /\ subLog[1].target = subLog[2].target
    /\ Len(opGdf.rows) = 2
    /\ Len(subLog[1].out.rows) = 1
    /\ subLog[1].out.rows[1] \notin Range(opGdf.rows)
    /\ subLog[2].out = subLog[1].out

IslandsThenHoles ==
    /\ opResult.called
    /\ Len(opOps) = 2
    /\ opOps[1].type = "extract_islands"
    /\ opOps[2].type = "remove_holes"

\* process_layer with the one operation remove_holes, and with extract_islands
RemoveHolesDirectly == ProcessLayer(opGdf, <<opOps[2]>>, opSources)
IslandsOnly == ProcessLayer(opGdf, <<opOps[1]>>, opSources)

\* C19: extract_islands followed by remove_holes gives the geometry that
\* remove_holes (no threshold) gives when applied to the collection directly.
C19_IslandsThenHolesEqualsHolesRemoved ==
    IslandsThenHoles =>
        /\ opResult.res.ok
        /\ RemoveHolesDirectly.ok
        /\ UnionAll(opResult.res.gdf) = UnionAll(RemoveHolesDirectly.gdf)

\* C19, as the code has it: extract_islands followed by remove_holes gives the
\* islands themselves, which have no interior rings, and the islands together with
\* the collection make up the geometry that remove_holes (no threshold) gives when
\* applied to the collection directly.
C19_IslandsCompleteCollectionToExteriors ==
    IslandsThenHoles =>
        /\ opResult.res.ok
        /\ RemoveHolesDirectly.ok
        /\ opResult.res = IslandsOnly
        /\ \A i \in DOMAIN opResult.res.gdf.rows : Holes(opResult.res.gdf.rows[i].geom) = {}
        /\ \A i \in DOMAIN RemoveHolesDirectly.gdf.rows :
                Holes(RemoveHolesDirectly.gdf.rows[i].geom) = {}
        /\ UnionAll(opResult.res.gdf) \cup UnionAll(opGdf) = UnionAll(RemoveHolesDirectly.gdf)

C19_Witness ==
    /\ IslandsThenHoles
    /\ Len(opGdf.rows) = 2
    /\ Holes(opGdf.rows[1].geom) # {}
    /\ Holes(opGdf.rows[2].geom) = {}
    /\ Len(opResult.res.gdf.rows) = 1
    /\ opResult.res.gdf.rows[1].src_idx = 0
    /\ UnionAll(opResult.res.gdf) # UnionAll(RemoveHolesDirectly.gdf)

ExcludeOnly ==
    /\ opResult.called
    /\ Len(opOps) = 1
    /\ opOps[1].type = "exclude"
    /\ Truthy(opOps[1].target)

\* C23: after a layer whose only operation is an exclude, the features that
\* intersect the union of the targets are gone and every other feature is there
\* as it was, in the same order; several targets act as their union.
C23_ExcludeRemovesIntersectingFeatures ==
    ExcludeOnly =>
        LET U == TargetUnion(opOps[1], opGdf.crs)
        IN  /\ opResult.res.ok
            /\ opResult.res.gdf.rows
                    = SelectSeq(opGdf.rows, LAMBDA row : row.geom \cap U = {})

\* C23, as the code has it: the union of each target is taken in the coordinates
\* the target is stored in, and the features that intersect it there are removed.
C23_ExcludeRemovesFeaturesMeetingStoredTargets ==
    ExcludeOnly =>
        LET U == UNION {UnionAll(opSources[t]) :
                            t \in Range(AsList(opOps[1].target)) \cap DOMAIN opSources}
        IN  /\ opResult.res.ok
            /\ opResult.res.gdf.rows
                    = SelectSeq(opGdf.rows, LAMBDA row : row.geom \cap U = {})

ClipToCollectionOnly ==
    /\ opResult.called
    /\ Len(opOps) = 1
    /\ opOps[1].type = "clip"
    /\ opOps[1].target.kind = "str"
    /\ opOps[1].target.str \in DOMAIN opSources

\* C20: after a layer whose only operation is a clip with another collection as
\* target, every feature is its intersection with the union of the geometries of
\* that collection: no part of a feature lies outside the union, and the features
\* whose intersection is empty are dropped.
C20_ClipIntersectsWithTargetUnion ==
    ClipToCollectionOnly =>
        LET U == TargetUnion(opOps[1], opGdf.crs)
            cut == [i \in DOMAIN opGdf.rows |-> [opGdf.rows[i] EXCEPT !.geom = @ \cap U]]
        IN  /\ opResult.res.ok
            /\ opResult.res.gdf.rows = SelectSeq(cut, NonEmptyRow)
            /\ \A i \in DOMAIN opResult.res.gdf.rows :
                    /\ opResult.res.gdf.rows[i].geom \subseteq U
                    /\ opResult.res.gdf.rows[i].geom # {}

\* C20, as the code has it: the features are cut to the box that total_bounds of
\* the target gives, read in the coordinates of the layer, and the features with
\* nothing in the box are dropped.
C20_ClipCutsToTargetTotalBounds ==
    ClipToCollectionOnly =>
        LET b == TotalBounds(opSources[opOps[1].target.str])
        IN  /\ opResult.res.ok
            /\ \A i \in DOMAIN opResult.res.gdf.rows :
                    /\ \A a \in opResult.res.gdf.rows[i].geom : InBox(b, a[1])
                    /\ opResult.res.gdf.rows[i].geom # {}
            /\ Len(opResult.res.gdf.rows)
                    = Cardinality({i \in DOMAIN opGdf.rows :
                                    \E a \in opGdf.rows[i].geom : InBox(b, a[1])})

(***************************************************************************)
(* Claims about the build command and the pipeline (checked under          *)
(* SpecBuild)                                                              *)
(***************************************************************************)
\* C2: in the build command, once validate_references has returned a non-empty
\* list, no method of the Pipeline ever runs: every error is printed, the command
\* ends with exit status 1, and no source is fetched, loaded or rendered.
C2_ValidationErrorsBlockThePipeline ==
    (pc # "idle" /\ validated /\ errors # <<>>) =>
        /\ pc = "exit"
        /\ exitStatus = 1
        /\ console = errors
        /\ ran = <<>>
        /\ paths = <<>>
        /\ DOMAIN selfSources = {}
        /\ selfLayers = <<>>
        /\ ~svg.written

C2_Witness ==
    /\ pc = "exit"
    /\ ~dryRun
    /\ Len(errors) = 2
    /\ console = errors
    /\ exitStatus = 1
    /\ \A n \in DOMAIN fetchOutcome : fetchOutcome[n] = "path"

\* the box the recipe declares: the four values, or the extent of the named source
DeclaredBox == GetOutputBounds(recipe.bounds, selfLayers, selfSources)

Declared(name) == CHOOSE i \in DOMAIN recipe.layers : recipe.layers[i].name = name

\* layer a comes before layer b: lower order, or equal order and declared first
Before(a, b) ==
    LET la == recipe.layers[Declared(a)]
        lb == recipe.layers[Declared(b)]
    IN  \/ la.order < lb.order
        \/ la.order = lb.order /\ Declared(a) < Declared(b)

\* the name of the layer a group of combined.svg was emitted for
LayerOfGroup(id) == CHOOSE n \in Range(DictKeys(recipe.layers)) : GroupId(n) = id

DocumentBounds ==
    UNION {{svg.tiers[q].out.files[k].bounds : k \in DOMAIN svg.tiers[q].out.files}
            \cup {svg.tiers[q].out.bounds} : q \in DOMAIN svg.tiers}

C16_DocumentsOfOneTierShareBounds ==
    \A q \in DOMAIN svg.tiers :
        \A k \in DOMAIN svg.tiers[q].out.files :
            svg.tiers[q].out.files[k].bounds = svg.tiers[q].out.bounds

\* the sources a layer references
Refs(layer_config) == Range(AsList(layer_config.source))

Loaded(source_name) == source_name \in DOMAIN selfSources

\* the layer is in the composed layer map
Composed(layer_name) == \E i \in DOMAIN selfLayers : selfLayers[i].name = layer_name

\* the layer has a group in combined.svg of every quality tier
Exported(layer_name) ==
    \A q \in DOMAIN svg.tiers :
        \E g \in DOMAIN svg.tiers[q].out.groups :
            svg.tiers[q].out.groups[g].id = GroupId(layer_name)

\* the layer is in no document of any quality tier
InNoOutput(layer_name) ==
    \A q \in DOMAIN svg.tiers :
        /\ \A g \in DOMAIN svg.tiers[q].out.groups :
                svg.tiers[q].out.groups[g].id # GroupId(layer_name)
        /\ \A k \in DOMAIN svg.tiers[q].out.files :
                svg.tiers[q].out.files[k].name # layer_name

Last(seq) == seq[Len(seq)]

\* C17: when the data of a source that a layer references is missing, that layer is
\* not composed and is in no output, every other layer is composed and exported,
\* and the build does not halt: a build that reached prepare does not end there,
\* and one that reached export has composed and exported exactly the layers all of
\* whose sources are loaded.
C17_MissingSourceAbortsOnlyItsLayer ==
    (pc = "exit" /\ ran # <<>>) =>
        /\ Last(ran) # "prepare"
        /\ Last(ran) = "export" =>
            \A i \in DOMAIN recipe.layers :
                LET layer_config == recipe.layers[i]
                IN  IF \E n \in Refs(layer_config) : ~Loaded(n)
                    THEN ~Composed(layer_config.name) /\ InNoOutput(layer_config.name)
                    ELSE Composed(layer_config.name) /\ Exported(layer_config.name)

\* C17, for the layers none of whose sources is loaded: in a build that reached
\* export, such a layer is not composed and is in no output, and every layer with
\* a loaded source is composed and exported.
C17_LayerWithoutLoadedSourceIsSkipped ==
    (pc = "exit" /\ ran # <<>> /\ Last(ran) = "export") =>
        \A i \in DOMAIN recipe.layers :
            LET layer_config == recipe.layers[i]
            IN  IF \A n \in Refs(layer_config) : ~Loaded(n)
                THEN ~Composed(layer_config.name) /\ InNoOutput(layer_config.name)
                ELSE Composed(layer_config.name) /\ Exported(layer_config.name)

\* process_layers on the recipe reduced to one of its layers
ComposedAlone(layer_name) ==
    ProcessLayers([recipe EXCEPT !.layers = <<recipe.layers[Declared(layer_name)]>>],
                  selfSources)

LayerGdf(layer_name) == (CHOOSE e \in Range(selfLayers) : e.name = layer_name).gdf

ComposedUnclipped == pc = "processed" /\ recipe.bounds = Str("auto")

\* the composed layers whose single source is loaded and whose one operation has
\* the type op_type
LayersWithOp(op_type) ==
    {i \in DOMAIN recipe.layers :
        /\ Composed(recipe.layers[i].name)
        /\ recipe.layers[i].source.kind = "str"
        /\ Len(recipe.layers[i].operations) = 1
        /\ recipe.layers[i].operations[1].type = op_type}

\* the features expected of extract_islands on gdf with the threshold min_area:
\* geometry, inherited NAME, parent index and island area, in emission order
ExpectedIslands(gdf, min_area) ==
    Flatten([i \in DOMAIN gdf.rows |->
        LET rings == SelectSeq(RingSeq(Holes(gdf.rows[i].geom)),
                               LAMBDA x : IslandArea(x) >= min_area)
        IN  [k \in DOMAIN rings |->
                [geom |-> {Core(rings[k])}, name |-> gdf.rows[i].name,
                 src_idx |-> gdf.rows[i].idx, island_area |-> IslandArea(rings[k])]]])

EmittedIslands(gdf) ==
    [k \in DOMAIN gdf.rows |->
        [geom |-> gdf.rows[k].geom, name |-> gdf.rows[k].name,
         src_idx |-> gdf.rows[k].src_idx, island_area |-> gdf.rows[k].island_area]]

\* the threshold an extract_islands operation of the recipe declares, 0 if none
DeclaredMinArea(op) == IF op.min_area_km2.st = "val" THEN op.min_area_km2.v ELSE 0

C21_EveryRingEmitted ==
    ComposedUnclipped =>
        \A i \in LayersWithOp("extract_islands") :
            LET layer_config == recipe.layers[i]
                gdf == LayerGdf(layer_config.name)
            IN  /\ EmittedIslands(gdf)
                        = ExpectedIslands(selfSources[layer_config.source.str], 0)
                /\ {"_source_idx", "_island_area", "NAME"} \subseteq gdf.cols

\* the layers process_layers visited whose one source is loaded and whose one
\* operation is of the type given, with neither tolerance nor distance declared
VisitedWithBareOp(op_type) ==
    {i \in DOMAIN recipe.layers :
        /\ \E k \in DOMAIN processing : processing[k] = recipe.layers[i].name
        /\ recipe.layers[i].source.kind = "str"
        /\ Loaded(recipe.layers[i].source.str)
        /\ Len(recipe.layers[i].operations) = 1
        /\ recipe.layers[i].operations[1].type = op_type
        /\ recipe.layers[i].operations[1].tolerance = NoneVal
        /\ recipe.layers[i].operations[1].distance = NoneVal}

\* C29: an operation of the recipe that omits an optional parameter runs with the
\* default: simplify without a tolerance simplifies with 0.0001, buffer without a
\* distance buffers with 0.
C29_OmittedParameterTakesDefault ==
    recipe.bounds = Str("auto") =>
        /\ \A i \in VisitedWithBareOp("simplify") :
                /\ Composed(recipe.layers[i].name)
                /\ LayerGdf(recipe.layers[i].name)
                        = Simplify(selfSources[recipe.layers[i].source.str],
                                   DefaultTolerance, TRUE)
        /\ \A i \in VisitedWithBareOp("buffer") :
                /\ Composed(recipe.layers[i].name)
                /\ LayerGdf(recipe.layers[i].name)
                        = Buffer(selfSources[recipe.layers[i].source.str], 0)

\* what the build does with such an operation: it reaches process_layer as a dict
\* whose tolerance or distance is None, the operation raises, no layer is stored
\* for it and the command ends with status 1
C29_OmittedParameterEndsTheBuild ==
    \A i \in VisitedWithBareOp("simplify") \cup VisitedWithBareOp("buffer") :
        /\ ~Composed(recipe.layers[i].name)
        /\ Last(processing) = recipe.layers[i].name
        /\ pc = "exit" /\ exitStatus = 1 /\ ~svg.written

C29_EndsTheBuildWitness ==
    /\ VisitedWithBareOp("simplify") # {}
    /\ Len(processing) = 2
    /\ Len(selfLayers) = 1

\* the composed layers that declare several sources and no operation
LayersOfSeveralSources ==
    {i \in DOMAIN recipe.layers :
        /\ Composed(recipe.layers[i].name)
        /\ recipe.layers[i].source.kind = "list"
        /\ recipe.layers[i].operations = <<>>}

\* the declared sources of a layer that are loaded, in declared order
LoadedRefs(layer_config) == SelectSeq(AsList(layer_config.source), Loaded)

\* the features of the sources, source by source in the order given, each source
\* in its own feature order, in WGS84: geometry and NAME
InWgs84(source_names) ==
    LET rows == Flatten([k \in DOMAIN source_names |->
                            ToCrs(selfSources[source_names[k]], "EPSG:4326").rows])
    IN  [j \in DOMAIN rows |-> [geom |-> rows[j].geom, name |-> rows[j].name]]

GeometryAndName(gdf) ==
    [j \in DOMAIN gdf.rows |-> [geom |-> gdf.rows[j].geom, name |-> gdf.rows[j].name]]

RECURSIVE SumOfLengths(_)
SumOfLengths(source_names) ==
    IF source_names = <<>> THEN 0
    ELSE Len(selfSources[Head(source_names)].rows) + SumOfLengths(Tail(source_names))

ConcatenatedInWgs84(i) ==
    LET layer_config == recipe.layers[i]
        gdf == LayerGdf(layer_config.name)
    IN  /\ gdf.crs = "EPSG:4326"
        /\ GeometryAndName(gdf) = InWgs84(LoadedRefs(layer_config))
        /\ Len(gdf.rows) = SumOfLengths(LoadedRefs(layer_config))

SourcesAsLoaded == LoadSources(paths, files, recipe.bounds)

LayerDicts ==
    UNION {{[i \in 1..n |-> [name |-> BuildLayerNames[i], gdf |-> g[i]]] :
                g \in [1..n -> InputCollections]} : n \in 1..MaxLayers}

ClipBounds ==
    {Str("auto"), Str("source:towns"), List(<<1, 0, MaxCoord, 0>>), List(<<0, 0, 1, 1>>)}

ClipInit ==
    /\ DownloadIdle
    /\ recipe \in {[sources |-> <<"towns">>, layers |-> <<>>, bounds |-> b] : b \in ClipBounds}
    /\ parsed = "ok"
    /\ parseError = BoundsAccepted
    /\ validated = FALSE
    /\ errors = <<>>
    /\ opSources = [n \in {} |-> NoFrame]
    /\ opGdf = NoFrame
    /\ opOps = <<>>
    /\ opResult = NotCalled
    /\ subLog = <<>>
    /\ CallsIdle
    /\ pc = "processed"
    /\ dryRun = FALSE
    /\ exitStatus = -1
    /\ console = <<>>
    /\ ran = <<>>
    /\ fetchOutcome = [n \in {} |-> ""]
    /\ files = [n \in {} |-> NoFrame]
    /\ paths = <<>>
    /\ selfSources = [n \in {} |-> NoFrame]
    /\ selfLayers \in LayerDicts
    /\ processing = <<>>
    /\ svg = NoSvg

\* self._clip_to_bounds()
CallClipToBounds ==
    /\ Len(clipLog) < MaxCalls
    /\ selfLayers' = ClipToBounds(selfLayers, recipe.bounds)
    /\ clipLog' = Append(clipLog, [before |-> selfLayers, after |-> selfLayers'])
    /\ UNCHANGED <<downloadVars, recipeVars, opSources, opGdf, opOps, opResult, subLog, fnArgs, fnResult,
                   pc, dryRun, exitStatus, console, ran, fetchOutcome, files, paths,
                   selfSources, processing, svg>>

ClipNext == CallClipToBounds

SpecClip == ClipInit /\ [][ClipNext]_vars

\* C11: a second pass of _clip_to_bounds with the same bounds over the layers the
\* first pass produced leaves every layer with the same features.
C11_ClipToBoundsIdempotent ==
    \A i \in 1..(Len(clipLog) - 1) : clipLog[i + 1].after = clipLog[i].after

C11_Witness ==
    /\ Len(clipLog) = 2
    /\ IsBox(recipe.bounds)
    /\ Len(clipLog[1].before) = 2
    /\ Len(clipLog[1].after[1].gdf.rows) = 1
    /\ Len(clipLog[1].before[1].gdf.rows) = 2
    /\ clipLog[1].after[1].gdf.rows[1] \notin Range(clipLog[1].before[1].gdf.rows)
    /\ clipLog[2].after = clipLog[1].after

(***************************************************************************)
(* kelley/svg.py: SVGExporter                                              *)
(***************************************************************************)
FMul(x, y) == Frac(x.n * y.n, x.d * y.d)
FDiv(x, y) == IF y.n < 0 THEN Frac(-(x.n * y.d), x.d * (-y.n)) ELSE Frac(x.n * y.d, x.d * y.n)
FLt(x, y) == x.n * y.d < y.n * x.d
Zero == Frac(0, 1)
Two == Frac(2, 1)

Dpi == 96

\* SVGExporter.__init__: the page in pixels
Exporter(width, height, units, margin) ==
    LET per == IF units = "in" THEN Frac(Dpi, 1)
               ELSE IF units = "mm" THEN Frac(Dpi * 10, 254)
               ELSE One
    IN  [width_px |-> FMul(width, per), height_px |-> FMul(height, per),
         margin_px |-> FMul(margin, per)]

\* math.cos(math.radians(center_lat)) for the latitudes of the model
CosDeg == [lat \in {-60, 0, 60} |-> IF lat = 0 THEN One ELSE Frac(1, 2)]

\* _calculate_transform with scale_x = base_scale
CalculateTransformNoCorrection(self, bounds) ==
    LET geo_width == Frac(bounds[3] - bounds[1], 1)
        geo_height == Frac(bounds[4] - bounds[2], 1)
        lat_correction == CosDeg[(bounds[2] + bounds[4]) \div 2]
        effective_geo_width == FMul(geo_width, lat_correction)
        drawable_width == FSub(self.width_px, FMul(Two, self.margin_px))
        drawable_height == FSub(self.height_px, FMul(Two, self.margin_px))
        scale_x_candidate == IF FLt(Zero, effective_geo_width)
                             THEN FDiv(drawable_width, effective_geo_width) ELSE One
        scale_y_candidate == IF FLt(Zero, geo_height)
                             THEN FDiv(drawable_height, geo_height) ELSE One
        base_scale == FMin(scale_x_candidate, scale_y_candidate)
    IN  [scale_x |-> base_scale, scale_y |-> base_scale,
         offset_x |-> FSub(FAdd(self.margin_px,
                                FDiv(FSub(drawable_width, FMul(geo_width, base_scale)), Two)),
                           FMul(Frac(bounds[1], 1), base_scale)),
         offset_y |-> FSub(FAdd(self.margin_px,
                                FDiv(FSub(drawable_height, FMul(geo_height, base_scale)), Two)),
                           FMul(Frac(bounds[2], 1), base_scale))]

\* SVGExporter._calculate_transform; bounds = <<minx, miny, maxx, maxy>>
CalculateTransform(self, bounds) ==
    LET geo_width == Frac(bounds[3] - bounds[1], 1)
        geo_height == Frac(bounds[4] - bounds[2], 1)
        lat_correction == CosDeg[(bounds[2] + bounds[4]) \div 2]
        effective_geo_width == FMul(geo_width, lat_correction)
        effective_geo_height == geo_height
        drawable_width == FSub(self.width_px, FMul(Two, self.margin_px))
        drawable_height == FSub(self.height_px, FMul(Two, self.margin_px))
        scale_x_candidate == IF FLt(Zero, effective_geo_width)
                             THEN FDiv(drawable_width, effective_geo_width) ELSE One
        scale_y_candidate == IF FLt(Zero, effective_geo_height)
                             THEN FDiv(drawable_height, effective_geo_height) ELSE One
        base_scale == FMin(scale_x_candidate, scale_y_candidate)
        scale_x == FMul(base_scale, lat_correction)
        scale_y == base_scale
        scaled_width == FMul(geo_width, scale_x)
        scaled_height == FMul(geo_height, scale_y)
    IN  [scale_x |-> scale_x, scale_y |-> scale_y,
         offset_x |-> FSub(FAdd(self.margin_px, FDiv(FSub(drawable_width, scaled_width), Two)),
                           FMul(Frac(bounds[1], 1), scale_x)),
         offset_y |-> FSub(FAdd(self.margin_px, FDiv(FSub(drawable_height, scaled_height), Two)),
                           FMul(Frac(bounds[2], 1), scale_y))]

(***************************************************************************)
(* Direct calls of the functions of kelley/svg.py on bounded arguments     *)
(***************************************************************************)
MaxIndex == 99

BaseColours ==
    {<<"#", "0", "0", "0", "0", "0", "0">>, <<"#", "f", "f", "f", "f", "f", "f">>,
     <<"#", "8", "0", "8", "0", "8", "0">>, <<"#", "3", "3", "3", "3", "3", "3">>,
     <<"#", "a", "5", "d", "6", "a", "7">>, <<"#", "9", "0", "c", "a", "f", "9">>,
     <<"#", "f", "f", "0", "0", "0", "0">>, <<"#", "0", "0", "0", "0", "f", "f">>,
     <<"#", "1", "a", "0", "f", "0", "a">>, <<"#", "f", "4", "8", "f", "b", "1">>}

Variations == {MappedVariation, DefaultVariation, 50}

Pages ==
    {Exporter(Frac(12, 1), Frac(18, 1), "in", Frac(1, 2)),
     Exporter(Frac(11, 1), Frac(17, 1), "in", Frac(1, 2)),
     Exporter(Frac(210, 1), Frac(297, 1), "mm", Frac(10, 1)),
     Exporter(Frac(800, 1), Frac(600, 1), "px", Zero)}

Longitudes == {-80, -70, 0, 170, -170}
LatitudePairs == {<<-10, 10>>, <<0, 0>>, <<-1, 1>>, <<50, 70>>, <<60, 60>>, <<-70, -50>>}

TransformCalls ==
    {[fn |-> "_calculate_transform", self |-> e, bounds |-> <<w, l[1], x, l[2]>>] :
        e \in Pages, w \in Longitudes, x \in Longitudes, l \in LatitudePairs}

VaryColorCalls ==
    {[fn |-> "vary_color", base_hex |-> c, index |-> i, variation |-> v] :
        c \in BaseColours, i \in 0..MaxIndex, v \in Variations}

\* style dicts: no fill; a fill; a fill with fill_by and color_map, varied or not;
\* a fill of "NONE"; fill_by and color_map without a fill
Style(fill, fill_by, color_map, vary_fill) ==
    [fill |-> fill, fill_by |-> fill_by, color_map |-> color_map, vary_fill |-> vary_fill]

NoColorMap == [k \in {} |-> <<>>]
ColorMapA == [k \in {"A"} |-> <<"#", "f", "f", "0", "0", "0", "0">>]

RenderStyles ==
    {Style(TAbsent, "", NoColorMap, "absent"),
     Style(TVal(<<"#", "a", "5", "d", "6", "a", "7">>), "", NoColorMap, "absent"),
     Style(TVal(<<"#", "9", "0", "c", "a", "f", "9">>), "NAME", ColorMapA, "absent"),
     Style(TVal(<<"#", "9", "0", "c", "a", "f", "9">>), "NAME", ColorMapA, "false"),
     Style(TVal(<<"N", "O", "N", "E">>), "", NoColorMap, "absent"),
     Style(TAbsent, "NAME", ColorMapA, "absent")}

\* collections: two features; the same names on other geometries; one whose first
\* row has the index label 1; one without a NAME column; one without rows
RenderGdfs ==
    {MkGdf("EPSG:4326", <<Solid(1), Solid(2)>>),
     MkGdf("EPSG:4326", <<Solid(2) \cup Solid(3), {Rim(0)}>>),
     Subtract(MkGdf("EPSG:4326", <<Solid(2), Solid(1)>>), Towns),
     Merge(MkGdf("EPSG:4326", <<Solid(1), Solid(2)>>)),
     MkGdf("EPSG:4326", <<>>)}

RenderLayers ==
    UNION {{[i \in 1..n |-> [name |-> BuildLayerNames[i], gdf |-> g[i], style |-> st[i]]] :
                g \in [1..n -> RenderGdfs], st \in [1..n -> RenderStyles]} : n \in 1..2}

RenderCalls ==
    {[fn |-> "render_svg", layers |-> ls, bounds |-> b] :
        ls \in RenderLayers, b \in {NoBounds, BoundsTuple(FALSE, 0, MaxCoord)}}

SvgInit ==
    /\ DownloadIdle
    /\ RecipeIdle
    /\ BuildIdle
    /\ opSources = [n \in {} |-> NoFrame]
    /\ opGdf = NoFrame
    /\ opOps = <<>>
    /\ opResult = NotCalled
    /\ subLog = <<>>
    /\ clipLog = <<>>
    /\ fnArgs \in VaryColorCalls \cup TransformCalls \cup RenderCalls
    /\ fnResult = NoCall

\* the results of the calls made so far, with one more
Returned(out) ==
    [fn |-> fnArgs.fn,
     outs |-> Append(IF fnResult.fn = "none" THEN <<>> ELSE fnResult.outs, out)]

CallsMade == IF fnResult.fn = "none" THEN 0 ELSE Len(fnResult.outs)

\* vary_color(base_hex, index, variation)
CallVaryColor ==
    /\ fnArgs.fn = "vary_color"
    /\ CallsMade < MaxCalls
    /\ fnResult' = Returned(VaryColor(Lstrip(fnArgs.base_hex), fnArgs.index, fnArgs.variation))
    /\ UNCHANGED <<downloadVars, recipeVars, buildVars, opSources, opGdf, opOps, opResult, subLog,
                   clipLog, fnArgs>>

\* exporter._calculate_transform(bounds)
CallCalculateTransform ==
    /\ fnArgs.fn = "_calculate_transform"
    /\ CallsMade < MaxCalls
    /\ fnResult' = Returned(CalculateTransform(fnArgs.self, fnArgs.bounds))
    /\ UNCHANGED <<downloadVars, recipeVars, buildVars, opSources, opGdf, opOps, opResult, subLog,
                   clipLog, fnArgs>>

\* render_svg(layers, output_dir, bounds=bounds)
CallRenderSvg ==
    /\ fnArgs.fn = "render_svg"
    /\ CallsMade < MaxCalls
    /\ fnResult' = Returned(RenderSvg(fnArgs.layers, fnArgs.bounds))
    /\ UNCHANGED <<downloadVars, recipeVars, buildVars, opSources, opGdf, opOps, opResult, subLog,
                   clipLog, fnArgs>>

SvgNext == CallVaryColor \/ CallCalculateTransform \/ CallRenderSvg

SpecSvg == SvgInit /\ [][SvgNext]_vars

(***************************************************************************)
(* Claims about kelley/svg.py (checked under SpecSvg)                      *)
(***************************************************************************)
RenderCalled == fnResult.fn = "render_svg"

\* the fills of all the documents of one render: per-layer files, then groups
DocFills(out) ==
    <<[k \in DOMAIN out.files |-> out.files[k].fills],
      [i \in DOMAIN out.groups |-> out.groups[i].fills]>>

\* the value of the fill_by attribute of a feature, None if the style names none
FillByValue(layer, j) ==
    IF layer.style.fill_by = "" THEN TNone
    ELSE RowAttr(layer.gdf.rows[j], layer.gdf.cols, layer.style.fill_by)

SameValue(a, b) == a.st = b.st /\ (a.st = "val" => a.v = b.v)

\* C12: the fill of a feature is a function of the style of its layer, the value of
\* its fill_by attribute and its ordinal position in the layer, and of nothing
\* else: two renders of the same layers give every feature the same fill, the
\* per-layer document and the combined document give a feature the same fill, and
\* two features that agree on style, attribute value and position have one fill.
C12_FillIsFunctionOfStyleAttributeAndPosition ==
    RenderCalled =>
        /\ \A a, b \in DOMAIN fnResult.outs :
                DocFills(fnResult.outs[a]) = DocFills(fnResult.outs[b])
        /\ \A a \in DOMAIN fnResult.outs :
                LET out == fnResult.outs[a]
                IN  /\ \A k \in DOMAIN out.files :
                            out.files[k].fills = out.groups[out.files[k].i].fills
                    /\ \A g, h \in DOMAIN out.groups :
                         \A j \in DOMAIN out.groups[g].fills \cap DOMAIN out.groups[h].fills :
                            (/\ fnArgs.layers[g].style = fnArgs.layers[h].style
                             /\ SameValue(FillByValue(fnArgs.layers[g], j),
                                          FillByValue(fnArgs.layers[h], j)))
                            => out.groups[g].fills[j] = out.groups[h].fills[j]

\* the style has no base fill: the key is absent or None, or the text is empty or
\* "none" in any case
NoBaseFill(style) ==
    style.fill.st # "val" \/ style.fill.v = <<>> \/ Lower(style.fill.v) = NoneText

\* the fill of a feature by the rule of the colour map: the mapped colour for a
\* value that is a key of the map, the base fill of the style otherwise, varied
\* by 0.08 and 0.15 when vary_fill is on
MappedFill(layer, j) ==
    LET style == layer.style
        value == FillByValue(layer, j)
        on == style.vary_fill # "false"
    IN  IF value.st = "val" /\ value.v \in DOMAIN style.color_map
        THEN IF on THEN FillVaried(VaryColor(Lstrip(style.color_map[value.v]), j - 1,
                                             MappedVariation))
             ELSE FillText(style.color_map[value.v])
        ELSE IF NoBaseFill(style) THEN FillText(NoneText)
        ELSE IF on THEN FillVaried(VaryColor(Lstrip(style.fill.v), j - 1, DefaultVariation))
        ELSE FillText(style.fill.v)

DeclaresColorMap(style) == style.fill_by # "" /\ DOMAIN style.color_map # {}

\* C25: in a layer whose style declares fill_by and a colour map, a feature whose
\* attribute value is a key of the map is filled with the mapped colour (varied by
\* 0.08, or unchanged with vary_fill off) and any other feature with the base fill
\* of the style (varied by 0.15, or unchanged).
C25_MappedFeaturesTakeMapColour ==
    RenderCalled =>
        \A a \in DOMAIN fnResult.outs : \A g \in DOMAIN fnResult.outs[a].groups :
            DeclaresColorMap(fnArgs.layers[g].style) =>
                \A j \in DOMAIN fnResult.outs[a].groups[g].fills :
                    fnResult.outs[a].groups[g].fills[j] = MappedFill(fnArgs.layers[g], j)

\* C25, as the code has it: the rule of the colour map applies in the styles that
\* have a base fill; in a style without one every feature is filled "none".
C25_MapColourNeedsBaseFill ==
    RenderCalled =>
        \A a \in DOMAIN fnResult.outs : \A g \in DOMAIN fnResult.outs[a].groups :
            DeclaresColorMap(fnArgs.layers[g].style) =>
                \A j \in DOMAIN fnResult.outs[a].groups[g].fills :
                    fnResult.outs[a].groups[g].fills[j]
                        = IF NoBaseFill(fnArgs.layers[g].style) THEN FillText(NoneText)
                          ELSE MappedFill(fnArgs.layers[g], j)

C12_Witness ==
    /\ RenderCalled
    /\ Len(fnResult.outs) = 2
    /\ Len(fnResult.outs[2].files) = 2
    /\ fnArgs.layers[1].style = fnArgs.layers[2].style
    /\ fnArgs.layers[2].style.fill_by = "NAME"
    /\ fnArgs.layers[1].gdf # fnArgs.layers[2].gdf
    /\ Len(fnResult.outs[2].files[2].fills) = 2
    /\ fnResult.outs[2].files[2].fills[1].kind = "varied"
    /\ fnResult.outs[2].files[2].fills[2].kind = "varied"
    /\ fnResult.outs[2].files[2].fills[1] # fnResult.outs[2].files[2].fills[2]
    /\ fnResult.outs[2].files[2].fills = fnResult.outs[2].groups[2].fills

VaryColorCalled == fnArgs.fn = "vary_color" /\ fnResult.fn = "vary_color"

\* the base colour of the call in HSV
BaseHsv ==
    LET hex == Lstrip(fnArgs.base_hex)
    IN  RgbToHsv(HexPair(hex, 1), HexPair(hex, 3), HexPair(hex, 5))

VariationOf == Frac(fnArgs.variation, 100)

\* saturation and value of out within `variation` of the base, hue equal, and the
\* value of the returned 8-bit colour within `variation` of the base value
WithinVariation(out) ==
    /\ out.h = BaseHsv.h
    /\ FLe(FAbs(FSub(out.s, BaseHsv.s)), VariationOf)
    /\ FLe(FAbs(FSub(out.v, BaseHsv.v)), VariationOf)
    /\ FLe(FAbs(FSub(Frac(out.value8, 255), BaseHsv.v)), VariationOf)

\* C13 as stated: for every base colour, index in [0, 100) and variation, the colour
\* vary_color produces is within `variation` of the base in saturation and in value
\* and has the hue of the base.
C13_VariedColourWithinVariation ==
    VaryColorCalled => \A i \in DOMAIN fnResult.outs : WithinVariation(fnResult.outs[i])

\* C13 amended: the same, for the base colours whose saturation is at least 0.1 and
\* whose value is at least 0.3 (below these floors the clamp moves the colour up to
\* the floor, whatever the variation).
C13_VariedColourWithinVariationAboveFloors ==
    (VaryColorCalled /\ FLe(SMin, BaseHsv.s) /\ FLe(VMin, BaseHsv.v)) =>
        \A i \in DOMAIN fnResult.outs : WithinVariation(fnResult.outs[i])

C13_Witness ==
    /\ VaryColorCalled
    /\ FLe(SMin, BaseHsv.s) /\ FLe(VMin, BaseHsv.v)
    /\ BaseHsv.h # Frac(0, 1)
    /\ fnArgs.index = 3
    /\ fnArgs.variation = DefaultVariation
    /\ fnResult.outs[1].s # BaseHsv.s
    /\ fnResult.outs[1].v # BaseHsv.v
    /\ fnResult.outs[1].value8 # Max3(HexPair(Lstrip(fnArgs.base_hex), 1),
                                      HexPair(Lstrip(fnArgs.base_hex), 3),
                                      HexPair(Lstrip(fnArgs.base_hex), 5))

Half == Frac(1, 2)
Clamp(lo, x, hi) == FMax(lo, FMin(hi, x))

\* saturation and value of out as the clamped sums the claim gives
ClampedAsStated(out) ==
    LET offset == Frac((fnArgs.index * 7919) % 100, 100)
        s_adjust == FMul(FMul(FSub(offset, Half), VariationOf), Half)
        v_adjust == FMul(FSub(offset, Half), VariationOf)
    IN  /\ out.s = Clamp(Frac(1, 10), FAdd(BaseHsv.s, s_adjust), One)
        /\ out.v = Clamp(Frac(3, 10), FAdd(BaseHsv.v, v_adjust), One)
        /\ FLe(Frac(1, 10), out.s) /\ FLe(out.s, One)
        /\ FLe(Frac(3, 10), out.v) /\ FLe(out.v, One)

\* C14 as stated: the colour vary_color produces has saturation in [0.1, 1.0] and
\* value in [0.3, 1.0], with offset ((index * 7919) mod 100) / 100, saturation
\* adjustment (offset - 0.5) * variation / 2 and value adjustment
\* (offset - 0.5) * variation.
C14_VariedColourWithinClamps ==
    VaryColorCalled =>
        \A i \in DOMAIN fnResult.outs :
            /\ ClampedAsStated(fnResult.outs[i])
            /\ FLe(Frac(3, 10), Frac(fnResult.outs[i].value8, 255))

\* C14 amended: the saturation and value vary_color computes are the clamped sums
\* and lie in [0.1, 1.0] and [0.3, 1.0]; the largest channel of the 8-bit colour it
\* returns is int(value * 255), between 76 and 255, so the value of the returned
\* colour is at least 76/255.
C14_ComputedColourWithinClamps ==
    VaryColorCalled =>
        \A i \in DOMAIN fnResult.outs :
            /\ ClampedAsStated(fnResult.outs[i])
            /\ fnResult.outs[i].value8 \in 76..255
            /\ FLe(Frac(fnResult.outs[i].value8, 255), fnResult.outs[i].v)

C14_Witness ==
    /\ VaryColorCalled
    /\ fnArgs.index = 7
    /\ BaseHsv.s = Frac(0, 1)
    /\ fnResult.outs[1].s = Frac(1, 10)
    /\ fnResult.outs[1].v = Frac(3, 10)
    /\ fnResult.outs[1].value8 = 76

TransformCalled == fnArgs.fn = "_calculate_transform" /\ fnResult.fn = "_calculate_transform"

CenterLat == (fnArgs.bounds[2] + fnArgs.bounds[4]) \div 2
GeoWidth == Frac(fnArgs.bounds[3] - fnArgs.bounds[1], 1)
GeoHeight == Frac(fnArgs.bounds[4] - fnArgs.bounds[2], 1)
DrawableWidth == FSub(fnArgs.self.width_px, FMul(Two, fnArgs.self.margin_px))
DrawableHeight == FSub(fnArgs.self.height_px, FMul(Two, fnArgs.self.margin_px))

\* scale_x = scale_y * cos(center latitude): equal at the equator, half at 60 degrees
ScaleXCorrected(out) ==
    /\ out.scale_x = FMul(out.scale_y, CosDeg[CenterLat])
    /\ CenterLat = 0 => out.scale_x = out.scale_y
    /\ CenterLat = 60 => FMul(Two, out.scale_x) = out.scale_y

\* C15 as stated: scale_x = scale_y * cos(center latitude) for all bounds, and
\* scale_y is the smaller of drawable_width / (geo_width * correction) and
\* drawable_height / geo_height (stated where both quotients exist).
C15_ScaleIsSmallerQuotient ==
    (TransformCalled /\ GeoWidth # Zero /\ GeoHeight # Zero) =>
        \A i \in DOMAIN fnResult.outs :
            /\ ScaleXCorrected(fnResult.outs[i])
            /\ fnResult.outs[i].scale_y =
                    FMin(FDiv(DrawableWidth, FMul(GeoWidth, CosDeg[CenterLat])),
                         FDiv(DrawableHeight, GeoHeight))

\* C15 amended: scale_x = scale_y * cos(center latitude) for all bounds; scale_y is
\* the smaller of the two candidates, where the candidate of a dimension is the
\* quotient if the dimension (geo_width * correction, geo_height) is positive and 1
\* otherwise.
C15_ScaleIsSmallerCandidate ==
    TransformCalled =>
        \A i \in DOMAIN fnResult.outs :
            /\ ScaleXCorrected(fnResult.outs[i])
            /\ fnResult.outs[i].scale_y =
                    FMin(IF FLt(Zero, FMul(GeoWidth, CosDeg[CenterLat]))
                         THEN FDiv(DrawableWidth, FMul(GeoWidth, CosDeg[CenterLat])) ELSE One,
                         IF FLt(Zero, GeoHeight)
                         THEN FDiv(DrawableHeight, GeoHeight) ELSE One)

C15_Witness ==
    /\ TransformCalled
    /\ CenterLat = 60
    /\ FLt(Zero, GeoWidth) /\ FLt(Zero, GeoHeight)
    /\ fnResult.outs[1].scale_y = FDiv(DrawableWidth, FMul(GeoWidth, CosDeg[CenterLat]))
    /\ FMul(Two, fnResult.outs[1].scale_x) = fnResult.outs[1].scale_y
    /\ fnResult.outs[1].scale_x # fnResult.outs[1].scale_y

(***************************************************************************)
(* Direct calls of remove_holes and merge (humboldt/geometry.py)           *)
(***************************************************************************)
ManyRings == {{Rim(1), Rim(2)}, {Rim(1), Rim(2)} \cup Solid(3), {}}

CallCollections ==
    InputCollections
    \cup {MkGdf(crs, <<g, h>>) : crs \in CrsChoices, g \in ManyRings, h \in FeatureGeoms}

HoleThresholds == {0, 1, 2, 3}

RemoveHolesCalls ==
    {[fn |-> "remove_holes", gdf |-> g, min_hole_area |-> t] :
        g \in CallCollections, t \in HoleThresholds}

MergeCalls == {[fn |-> "merge", gdf |-> g] : g \in CallCollections}

\* the attribute texts of the filter calls: "St.", "Sto", "on"
StDot == <<"S", "t", ".">>
Sto == <<"S", "t", "o">>
On == <<"o", "n">>
AttrTexts == {StDot, Sto, On}

MaxFilterRows == 3
MaxFilterItems == 2

\* collections with the attribute NAME, and with a second attribute whose name
\* ends in "_in"
MkRows(names, cols) ==
    [i \in DOMAIN names |->
        [idx |-> i - 1,
         attrs |-> [c \in cols |-> IF c = "NAME" THEN names[i]
                                   ELSE IF names[i] = On THEN On ELSE Sto]]]

FilterCollections ==
    {[cols |-> cols, rows |-> MkRows(names, cols)] :
        cols \in {{"NAME"}, {"NAME", "FLAG_in"}},
        names \in UNION {[1..n -> AttrTexts] : n \in 0..MaxFilterRows}}

Key(text, suffix, column) == [text |-> text, suffix |-> suffix, column |-> column]
Scalar(v) == [kind |-> "scalar", v |-> v]
Listed(v) == [kind |-> "list", v |-> v]

FilterItems ==
    {[key |-> Key("NAME", "", "NAME"), value |-> Scalar(Sto)],
     [key |-> Key("NAME", "", "NAME"), value |-> Listed({StDot, On})],
     [key |-> Key("NAME_contains", "_contains", "NAME"), value |-> Scalar(<<"s", "T">>)],
     [key |-> Key("NAME_contains", "_contains", "NAME"), value |-> Scalar(<<"t", ".">>)],
     [key |-> Key("NAME_in", "_in", "NAME"), value |-> Listed({Sto, On})],
     [key |-> Key("NAME_in", "_in", "NAME"), value |-> Scalar(On)],
     [key |-> Key("FLAG_in", "_in", "FLAG"), value |-> Scalar(On)],
     [key |-> Key("KIND", "", "KIND"), value |-> Scalar(On)],
     [key |-> Key("counties", "", "counties"), value |-> Listed({On})]}

FilterCalls ==
    {[fn |-> "_apply_filter", gdf |-> g, filter_config |-> f] :
        g \in FilterCollections,
        f \in UNION {[1..n -> FilterItems] : n \in 1..MaxFilterItems}}

CallsInit ==
    /\ DownloadIdle
    /\ RecipeIdle
    /\ BuildIdle
    /\ opSources = [n \in {} |-> NoFrame]
    /\ opGdf = NoFrame
    /\ opOps = <<>>
    /\ opResult = NotCalled
    /\ subLog = <<>>
    /\ clipLog = <<>>
    /\ fnArgs \in RemoveHolesCalls \cup MergeCalls \cup FilterCalls
    /\ fnResult = NoCall

\* remove_holes(gdf, min_hole_area)
CallRemoveHoles ==
    /\ fnArgs.fn = "remove_holes"
    /\ CallsMade < MaxCalls
    /\ fnResult' = Returned(RemoveHoles(fnArgs.gdf, fnArgs.min_hole_area))
    /\ UNCHANGED <<downloadVars, recipeVars, buildVars, opSources, opGdf, opOps, opResult, subLog,
                   clipLog, fnArgs>>

\* merge(gdf)
CallMerge ==
    /\ fnArgs.fn = "merge"
    /\ CallsMade < MaxCalls
    /\ fnResult' = Returned(Merge(fnArgs.gdf))
    /\ UNCHANGED <<downloadVars, recipeVars, buildVars, opSources, opGdf, opOps, opResult, subLog,
                   clipLog, fnArgs>>

\* Pipeline._apply_filter(gdf, filter_config)
CallApplyFilter ==
    /\ fnArgs.fn = "_apply_filter"
    /\ CallsMade < MaxCalls
    /\ fnResult' = Returned(ApplyFilter(fnArgs.gdf, fnArgs.filter_config))
    /\ UNCHANGED <<downloadVars, recipeVars, buildVars, opSources, opGdf, opOps, opResult, subLog,
                   clipLog, fnArgs>>

CallsNext == CallRemoveHoles \/ CallMerge \/ CallApplyFilter

SpecCalls == CallsInit /\ [][CallsNext]_vars

(***************************************************************************)
(* Claims about remove_holes and merge (checked under SpecCalls)           *)
(***************************************************************************)
RemoveHolesCalled == fnResult.fn = "remove_holes"

\* the attributes of a row: everything but its geometry
Attributes(row) == [row EXCEPT !.geom = {}]

MergeCalled == fnResult.fn = "merge"

\* C24: merge returns one feature whose geometry is the union of the geometries of
\* the input, with no column but geometry, in the CRS of the input.
C24_MergeGivesOneUnionFeature ==
    MergeCalled =>
        \A c \in DOMAIN fnResult.outs :
            LET out == fnResult.outs[c]
            IN  /\ Len(out.rows) = 1
                /\ out.rows[1].geom = UNION {fnArgs.gdf.rows[i].geom : i \in DOMAIN fnArgs.gdf.rows}
                /\ out.cols = {"geometry"}
                /\ out.rows[1].name = ""
                /\ out.crs = fnArgs.gdf.crs

C24_Witness ==
    /\ MergeCalled
    /\ Len(fnArgs.gdf.rows) = 2
    /\ fnArgs.gdf.crs = "EPSG:4269"
    /\ fnArgs.gdf.rows[1].geom # fnArgs.gdf.rows[2].geom
    /\ "NAME" \in fnArgs.gdf.cols
    /\ fnResult.outs[1].rows[1].geom \notin {fnArgs.gdf.rows[1].geom, fnArgs.gdf.rows[2].geom}
    /\ fnResult.outs[1].crs = "EPSG:4269"

(***************************************************************************)
(* Claims about Pipeline._apply_filter (checked under SpecCalls)            *)
(***************************************************************************)
FilterCalled == fnResult.fn = "_apply_filter"

\* a row satisfies one filter item, as the filter grammar reads it
Satisfies(row, cols, item) ==
    IF item.key.text \in cols
    THEN IF item.value.kind = "list" THEN row.attrs[item.key.text] \in item.value.v
         ELSE row.attrs[item.key.text] = item.value.v
    ELSE IF item.key.suffix = "_contains" /\ item.key.column \in cols
    THEN StrContainsLiteral(row.attrs[item.key.column], item.value.v)
    ELSE IF item.key.suffix = "_in" /\ item.key.column \in cols
    THEN row.attrs[item.key.column] \in ValuesOf(item.value)
    ELSE TRUE

KeepsSatisfying(gdf, filter_config, out) ==
    /\ out.cols = gdf.cols
    /\ out.rows = SelectSeq(gdf.rows, LAMBDA row :
                        \A k \in DOMAIN filter_config :
                            Satisfies(row, gdf.cols, filter_config[k]))

\* C28: _apply_filter keeps exactly the features that satisfy every filter key, in
\* their original order: equality or membership for a key that is an attribute
\* name, case-insensitive substring for {attr}_contains, membership for {attr}_in.
C28_FilterKeepsFeaturesSatisfyingEveryKey ==
    FilterCalled =>
        \A c \in DOMAIN fnResult.outs :
            KeepsSatisfying(fnArgs.gdf, fnArgs.filter_config, fnResult.outs[c])

\* the filter items whose {attr}_contains value has no "." and whose key, when it
\* is an attribute name, ends in neither suffix
PlainItem(cols, item) ==
    /\ item.key.suffix = "_contains" => \A k \in DOMAIN item.value.v : item.value.v[k] # "."
    /\ item.key.text \in cols => item.key.suffix = ""

\* C28, for filters of such items only
C28_PlainFilterKeepsFeaturesSatisfyingEveryKey ==
    (/\ FilterCalled
     /\ \A k \in DOMAIN fnArgs.filter_config :
            PlainItem(fnArgs.gdf.cols, fnArgs.filter_config[k]))
    => \A c \in DOMAIN fnResult.outs :
            KeepsSatisfying(fnArgs.gdf, fnArgs.filter_config, fnResult.outs[c])

C28_PlainWitness ==
    /\ FilterCalled
    /\ Len(fnResult.outs) = 1
    /\ Len(fnArgs.filter_config) = 2
    /\ fnArgs.filter_config[1].key.text = "NAME_contains"
    /\ fnArgs.filter_config[1].value.v = <<"s", "T">>
    /\ fnArgs.filter_config[2].key.text = "NAME_in"
    /\ Len(fnArgs.gdf.rows) = 3
    /\ Len(fnResult.outs[1].rows) = 1
    /\ fnResult.outs[1].rows[1].idx = 2

(***************************************************************************)
(* thoreau: the archive download of _download_single_file (census.py),      *)
(* fetch_quebec (quebec.py) and fetch_canada (canada.py), statement by      *)
(* statement.  The three loops are the same code; fetch_quebec and          *)
(* fetch_canada look into the cache first.  `cached` and `cache` say what   *)
(* the cache directory holds: "no" archive, an "empty" one (no shapefile)   *)
(* or one with a "shapefile".                                               *)
(***************************************************************************)
max_retries == 3

\* time.sleep(2 ** attempt), doubling from 2 instead of 1
BackoffFromTwo(attempt) == 2 ^ (attempt + 1)

\* 2 ** attempt
Backoff(attempt) == 2 ^ attempt

Fetchers == {"_download_single_file", "fetch_quebec", "fetch_canada"}

\* what the server holds under the url: a zip with or without a shapefile, or
\* bytes that are no zip
Archives == {"shapefile", "empty", "not a zip"}

Event(ev, n) == [ev |-> ev, n |-> n]

DownloadCalls ==
    {[NoDownload EXCEPT !.fetcher = f, !.pc = "start", !.force = force,
                        !.cached = cached, !.cache = cached, !.archive = a] :
        f \in Fetchers \ {"_download_single_file"}, force \in BOOLEAN,
        cached \in {"no", "empty", "shapefile"}, a \in Archives}
    \cup {[NoDownload EXCEPT !.fetcher = "_download_single_file", !.pc = "get",
                             !.archive = a] : a \in Archives}

DownloadInit ==
    /\ RecipeIdle
    /\ OpsIdle
    /\ BuildIdle
    /\ download \in DownloadCalls

\* if not force and is_cached(cache_uri): ... if shapefiles: return
DownloadCheckCache ==
    /\ download.pc = "start"
    /\ download' = IF ~download.force /\ download.cached = "shapefile"
                   THEN [download EXCEPT !.pc = "returned",
                                         !.log = Append(@, Event("cached", 0))]
                   ELSE [download EXCEPT !.pc = "get"]
    /\ UNCHANGED <<recipeVars, opVars, buildVars>>

\* one pass of `for attempt in range(max_retries)`: client.get(url) and
\* response.raise_for_status(); break, or the except branch up to its sleep or
\* its raise
DownloadGet ==
    /\ download.pc = "get"
    /\ \E outcome \in {"ok", "HTTPError"} :
        download' =
            IF outcome = "ok"
            THEN [download EXCEPT !.pc = "extract", !.response = download.archive,
                                  !.log = Append(@, Event("get ok", download.attempt))]
            ELSE IF download.attempt < max_retries - 1
            THEN [download EXCEPT !.pc = "sleep",
                                  !.log = Append(@, Event("get failed", download.attempt))]
            ELSE [download EXCEPT !.pc = "raised", !.raised = "RuntimeError",
                                  !.log = Append(Append(@,
                                            Event("get failed", download.attempt)),
                                            Event("RuntimeError", 0))]
    /\ UNCHANGED <<recipeVars, opVars, buildVars>>

\* time.sleep(2 ** attempt) and the next value of the loop variable
DownloadSleep ==
    /\ download.pc = "sleep"
    /\ download' = [download EXCEPT !.pc = "get", !.attempt = @ + 1,
                                    !.log = Append(@, Event("sleep", Backoff(download.attempt)))]
    /\ UNCHANGED <<recipeVars, opVars, buildVars>>

\* with zipfile.ZipFile(io.BytesIO(response.content)) as zf: zf.extractall(cache_path)
DownloadExtract ==
    /\ download.pc = "extract"
    /\ download' = IF download.response = "not a zip"
                   THEN [download EXCEPT !.pc = "raised", !.raised = "BadZipFile",
                                         !.log = Append(@, Event("BadZipFile", 0))]
                   ELSE [download EXCEPT !.pc = "returned",
                                         !.cache = IF download.cache = "shapefile"
                                                   THEN "shapefile" ELSE download.response,
                                         !.log = Append(@, Event("extractall", 0))]
    /\ UNCHANGED <<recipeVars, opVars, buildVars>>

DownloadNext == DownloadCheckCache \/ DownloadGet \/ DownloadSleep \/ DownloadExtract

SpecDownload == DownloadInit /\ [][DownloadNext]_vars

(***************************************************************************)
(* Claims about the download (checked under SpecDownload)                   *)
(***************************************************************************)
Events(ev) == {p \in DOMAIN download.log : download.log[p].ev = ev}

Attempts == Events("get ok") \cup Events("get failed")

FailuresBefore(p) == Cardinality({q \in Events("get failed") : q < p})

\* C30: a download makes at most three HTTP attempts and none after a successful
\* one; it waits 1 s after the first failure and 2 s after the second; it raises
\* RuntimeError only after three consecutive failures; the archive is extracted
\* only after a successful response.
C30_ThreeAttemptsWithBackoff ==
    /\ Cardinality(Attempts) <= 3
    /\ \A p \in Events("get ok") : \A q \in Attempts : q <= p
    /\ \A p \in Events("sleep") :
            /\ p > 1 /\ download.log[p - 1].ev = "get failed"
            /\ FailuresBefore(p) = 1 => download.log[p].n = 1
            /\ FailuresBefore(p) = 2 => download.log[p].n = 2
            /\ FailuresBefore(p) \in {1, 2}
    /\ \A p \in Events("get failed") :
            (p < Len(download.log) /\ FailuresBefore(p) < 2)
                => download.log[p + 1].ev = "sleep"
    /\ \A p \in Attempts :
            (p > 1 /\ download.log[p - 1].ev # "cached")
                => download.log[p - 1].ev = "sleep"
    /\ \A p \in Events("RuntimeError") :
            /\ FailuresBefore(p) = 3
            /\ Events("get ok") = {}
    /\ download.raised = "RuntimeError" <=> Events("RuntimeError") # {}
    /\ \A p \in Events("extractall") : p > 1 /\ download.log[p - 1].ev = "get ok"
    /\ download.cache # download.cached => Events("extractall") # {}

\* the third attempt succeeded after waits of 1 s and 2 s and the archive is in
\* the cache
C30_Witness ==
    /\ download.pc = "returned"
    /\ download.cached = "no" /\ download.cache = "shapefile"
    /\ [p \in DOMAIN download.log |-> download.log[p].ev]
            = <<"get failed", "sleep", "get failed", "sleep", "get ok", "extractall">>
    /\ download.log[2].n = 1 /\ download.log[4].n = 2

\* three failures in a row end in RuntimeError, nothing extracted
C30_FailureWitness ==
    /\ download.raised = "RuntimeError"
    /\ Cardinality(Events("get failed")) = 3
    /\ download.cache = download.cached

====
